---- MODULE Spec2Model ----
(***************************************************************************)
(* Holiday Email Orchestrator: the authentication and authorization core.  *)
(*                                                                         *)
(* Server side: POST /auth/login behind authRateLimiter, and the /api      *)
(* guard chain apiRateLimiter -> requireApiKey -> requireAuth -> router.   *)
(* Client side: AuthProvider (token in memory, two localStorage entries,   *)
(* mount effect, auto-logout timer) and the protected calls of the app.    *)
(*                                                                         *)
(* Strings that the code splits or parses are sequences of atoms, so that  *)
(* split(' '), split(','), trim(), toString() and parseInt() are computed. *)
(* Time is Date.now() in milliseconds.                                     *)
(***************************************************************************)
EXTENDS Integers, Sequences, FiniteSets, TLC

\* ------------------------------------------------------------------------
\* Bounds of the model
\* ------------------------------------------------------------------------

\* Largest totalHits the login bucket of a key is driven to.
MaxHits == 6

\* Largest totalHits the /api bucket of a key is driven to.
MaxApiHits == 3

\* Largest totalHits of the login bucket while /api is explored.
MaxLogins == 2

\* Largest number of protected fetches of the client in flight at once.
MaxCalls == 1

\* Largest number of distinct tokens login issues in one behaviour.
MaxIssued == 2

\* Largest number of Email Batches created while the guards are explored.
MaxApiBatches == 1

\* Largest number of Email Batches the database is filled with.
MaxBatches == 2

\* Largest number of webhook fetches of the client in flight at once.
MaxWebhooks == 2

\* Largest number of login requests that overlap in the limiter.
MaxConcLogins == 6

\* Largest number of /api requests that overlap in the limiter.
MaxConcApi == 3

\* Largest number of requests the two limiters count together while the
\* bucket keys are explored.
MaxKeyHits == 3

\* Longest text of words, blanks, commas and newlines given to extractEmails.
MaxLen == 4

\* Largest number of comma- or newline-separated entries of a recipients
\* text built from whole entries.
MaxEntries == 2

\* Value of RATE_LIMIT_MAX_REQ when the environment sets it.
EnvMaxReq == 2

\* ------------------------------------------------------------------------
\* Process configuration (server.ts, auth.ts, rateLimit.ts)
\* ------------------------------------------------------------------------

ACCESS_PASSWORD == "hunter2"

JWT_SECRET == "server-secret"

API_KEY_FRONTEND == "frontend-key"

TOKEN_EXPIRATION_SECONDS == 8 * 60 * 60

\* '8h' as the ms package reads it: a number followed by a unit.
TOKEN_EXPIRATION == [value |-> 8, unit |-> "h"]

\* A conversion that takes hours for minutes.
ms_HoursAsMinutes(span) ==
  span.value * (IF span.unit = "d" THEN 24 * 60 * 60 * 1000
                ELSE IF span.unit = "h" THEN 60 * 1000
                ELSE IF span.unit = "m" THEN 60 * 1000
                ELSE IF span.unit = "s" THEN 1000
                ELSE 1)

\* ms(span): the time span in milliseconds.
ms(span) ==
  span.value * (IF span.unit = "d" THEN 24 * 60 * 60 * 1000
                ELSE IF span.unit = "h" THEN 60 * 60 * 1000
                ELSE IF span.unit = "m" THEN 60 * 1000
                ELSE IF span.unit = "s" THEN 1000
                ELSE 1)

WINDOW_SEC == 60

windowMs == WINDOW_SEC * 1000

AUTH_MAX == 5

DEFAULT_MAX_REQ == 30

\* The instants at which the clock is observed (ms): around the start and
\* the end of a rate-limit window ...
LoginTimes == {0, 500, windowMs, windowMs + 500}

\* ... and around the expiry of the tokens issued in the first second.
ApiTimes ==
  LET ttl == TOKEN_EXPIRATION_SECONDS * 1000
  IN  {0, 500, windowMs, ttl - 500, ttl, ttl + 500}

\* The instants at which the browser's clock is observed.
ClientTimes ==
  LET ttl == TOKEN_EXPIRATION_SECONDS * 1000
  IN  {0, 500, ttl, ttl + 500}

\* ------------------------------------------------------------------------
\* Strings as sequences of atoms
\* ------------------------------------------------------------------------

NoPayload == [sub |-> "", role |-> "", iat |-> 0, exp |-> 0]

\* A piece of text without separators.
Word(s) == [w |-> s]

SP == Word(" ")

COMMA == Word(",")

NL == Word("\n")

AT == Word("@")

DOT == Word(".")

\* The characters \s matches and trim() strips.
WS == { SP, NL }

\* A header that the request does not carry (req.header(...) is undefined).
NoHeader == << Word("<absent>") >>

\* String.prototype.split(sep) for a one-atom separator: the pieces between
\* separators, empty pieces included.
RECURSIVE SplitFrom(_, _, _, _)
SplitFrom(s, sep, i, cur) ==
  IF i > Len(s) THEN << cur >>
  ELSE IF s[i] = sep THEN << cur >> \o SplitFrom(s, sep, i + 1, << >>)
  ELSE SplitFrom(s, sep, i + 1, Append(cur, s[i]))

Split(s, sep) == SplitFrom(s, sep, 1, << >>)

\* String.prototype.trim(): strip leading and trailing whitespace.
RECURSIVE TrimLeft(_)
TrimLeft(s) ==
  IF s # << >> /\ Head(s) \in WS THEN TrimLeft(Tail(s)) ELSE s

RECURSIVE TrimRight(_)
TrimRight(s) ==
  IF s # << >> /\ s[Len(s)] \in WS THEN TrimRight(SubSeq(s, 1, Len(s) - 1)) ELSE s

Trim(s) == TrimRight(TrimLeft(s))

\* ------------------------------------------------------------------------
\* Form validation (lib/validation.ts)
\* ------------------------------------------------------------------------

\* A test that does not ask for a dot after the @.
isValidEmail_NoDot(email) ==
  LET e == Trim(email) IN
  /\ \A k \in 1..Len(e) : e[k] \notin WS
  /\ \E i \in 2..(Len(e) - 1) :
       /\ e[i] = AT
       /\ \A k \in 1..Len(e) : e[k] = AT => k = i

\* /^[^\s@]+@[^\s@]+\.[^\s@]+$/ on the trimmed text: no whitespace, exactly
\* one @ with something before it, and after it a dot with something on
\* both sides.
isValidEmail(email) ==
  LET e == Trim(email) IN
  /\ \A k \in 1..Len(e) : e[k] \notin WS
  /\ \E i \in 2..Len(e) :
       /\ e[i] = AT
       /\ \A k \in 1..Len(e) : e[k] = AT => k = i
       /\ \E j \in (i + 2)..(Len(e) - 1) : e[j] = DOT

\* The pieces of s between the characters of seps, empty pieces included.
RECURSIVE SplitAnyFrom(_, _, _, _)
SplitAnyFrom(s, seps, i, cur) ==
  IF i > Len(s) THEN << cur >>
  ELSE IF s[i] \in seps THEN << cur >> \o SplitAnyFrom(s, seps, i + 1, << >>)
  ELSE SplitAnyFrom(s, seps, i + 1, Append(cur, s[i]))

\* Array.prototype.filter with the test email.length > 0, after map(trim).
RECURSIVE TrimAndDropEmpty(_)
TrimAndDropEmpty(pieces) ==
  IF pieces = << >> THEN << >>
  ELSE LET email == Trim(Head(pieces)) IN
       IF Len(email) > 0 THEN << email >> \o TrimAndDropEmpty(Tail(pieces))
       ELSE TrimAndDropEmpty(Tail(pieces))

\* An extraction that splits on commas only.
extractEmails_CommaOnly(raw) == TrimAndDropEmpty(SplitAnyFrom(raw, { COMMA }, 1, << >>))

\* raw.split(/[,\n]+/).map(trim).filter(nonempty): a run of separators leaves
\* only empty pieces behind, which the filter drops.
extractEmails(raw) == TrimAndDropEmpty(SplitAnyFrom(raw, { COMMA, NL }, 1, << >>))

NoErrors == [holidayName |-> "", senderName |-> "", recipients |-> ""]

\* validateForm(fields): the message per field ("": the key is not set).
validateForm(fields) ==
  LET emails == extractEmails(fields.recipients)
      errors ==
        [holidayName |-> IF Trim(fields.holidayName) = << >>
                           THEN "Holiday name is required." ELSE "",
         senderName  |-> IF Trim(fields.senderName) = << >>
                           THEN "Sender name is required." ELSE "",
         recipients  |-> IF Trim(fields.recipients) = << >>
                           THEN "At least one recipient email is required."
                         ELSE IF Len(emails) = 0
                           THEN "At least one recipient email is required."
                         ELSE IF ~(\E i \in 1..Len(emails) : isValidEmail(emails[i]))
                           THEN "Please enter at least one valid email address."
                         ELSE ""]
  IN  [valid |-> errors = NoErrors, errors |-> errors]

\* The fields of the form as the Form component first renders them.
NoFields ==
  [holidayName |-> << >>, tone |-> << >>, audienceType |-> "business",
   language |-> "en", senderName |-> << >>, recipients |-> << >>]

\* Nothing has been returned yet.
NoOutput ==
  [extracted |-> FALSE, emails |-> << >>,
   validated |-> FALSE, validation |-> [valid |-> FALSE, errors |-> NoErrors]]

\* The texts of at most n characters of the alphabet.
RECURSIVE Texts(_, _)
Texts(alphabet, n) ==
  IF n = 0 THEN { << >> }
  ELSE LET shorter == Texts(alphabet, n - 1)
       IN  shorter \cup { Append(t, a) : t \in shorter, a \in alphabet }

\* Entries of a recipients text: nothing, a blank, two addresses (one padded
\* with blanks), and texts that are not addresses: a bare word, no dot after
\* the @, two @, a blank inside, nothing before the @.
Entries ==
  { << >>, << SP >>,
    << Word("a"), AT, Word("b"), DOT, Word("com") >>,
    << SP, Word("c"), AT, Word("d"), DOT, Word("org"), SP >>,
    << Word("bogus") >>,
    << Word("a"), AT, Word("b") >>,
    << Word("a"), AT, AT, Word("b"), DOT, Word("com") >>,
    << Word("a"), SP, Word("b"), AT, Word("c"), DOT, Word("com") >>,
    << AT, Word("b"), DOT, Word("com") >> }

\* The texts of at most n entries, separated by a comma or a newline.
RECURSIVE EntryTexts(_)
EntryTexts(n) ==
  IF n = 1 THEN Entries
  ELSE LET shorter == EntryTexts(n - 1)
       IN  shorter \cup { t \o << sep >> \o e
                           : t \in shorter, sep \in { COMMA, NL }, e \in Entries }

\* "a@x.com, b@y.com\nc@z.com"
ThreeAddresses ==
  << Word("a"), AT, Word("x"), DOT, Word("com"), COMMA, SP,
     Word("b"), AT, Word("y"), DOT, Word("com"), NL,
     Word("c"), AT, Word("z"), DOT, Word("com") >>

\* The recipients texts the functions are called with.
RecipientTexts ==
  Texts({ Word("a"), SP, COMMA, NL }, MaxLen)
  \cup EntryTexts(MaxEntries)
  \cup { ThreeAddresses }

\* The fields the functions are called with.
LibInputs ==
  { [NoFields EXCEPT !.holidayName = h, !.senderName = n, !.recipients = r]
    : h \in { << SP >>, << Word("Diwali"), SP >> },
      n \in { << >>, << Word("Jane") >> },
      r \in RecipientTexts }

\* ------------------------------------------------------------------------
\* Session tokens (jsonwebtoken sign / verify, HS256)
\* ------------------------------------------------------------------------

\* jwt.sign(payload, secret, {expiresIn}): iat is the clock in seconds, exp is
\* iat plus the lifetime in seconds (ms(expiresIn) / 1000); the signature is a MAC over the payload, modelled by
\* the pair (payload signed, key used).
JwtSign(payload, secret, expiresInSec, nowMs) ==
  LET iat == nowMs \div 1000
      full == [sub |-> payload.sub, role |-> payload.role,
               iat |-> iat, exp |-> iat + expiresInSec]
  IN  [w |-> "jwt", p |-> full, mp |-> full, mk |-> secret]

\* jwt.verify with the expiry compared by > instead of >=.
JwtVerify_ExpiryOffByOne(token, secret, nowMs) ==
  IF Len(token) # 1 \/ token[1].w # "jwt"
    THEN [err |-> "JsonWebTokenError", decoded |-> NoPayload]
  ELSE IF token[1].mp # token[1].p \/ token[1].mk # secret
    THEN [err |-> "JsonWebTokenError", decoded |-> NoPayload]
  ELSE IF nowMs \div 1000 > token[1].p.exp
    THEN [err |-> "TokenExpiredError", decoded |-> NoPayload]
  ELSE [err |-> "", decoded |-> token[1].p]

\* jwt.decode in place of jwt.verify: the signature is not checked.
JwtVerify_NoSignatureCheck(token, secret, nowMs) ==
  IF Len(token) # 1 \/ token[1].w # "jwt"
    THEN [err |-> "JsonWebTokenError", decoded |-> NoPayload]
  ELSE IF nowMs \div 1000 >= token[1].p.exp
    THEN [err |-> "TokenExpiredError", decoded |-> NoPayload]
  ELSE [err |-> "", decoded |-> token[1].p]

\* jwt.verify(token, secret): structure, then signature, then expiry.
JwtVerify(token, secret, nowMs) ==
  IF Len(token) # 1 \/ token[1].w # "jwt"
    THEN [err |-> "JsonWebTokenError", decoded |-> NoPayload]
  ELSE IF token[1].mp # token[1].p \/ token[1].mk # secret
    THEN [err |-> "JsonWebTokenError", decoded |-> NoPayload]
  ELSE IF nowMs \div 1000 >= token[1].p.exp
    THEN [err |-> "TokenExpiredError", decoded |-> NoPayload]
  ELSE [err |-> "", decoded |-> token[1].p]

\* ------------------------------------------------------------------------
\* State
\* ------------------------------------------------------------------------

VARIABLES
  now,          \* Date.now() in ms
  maxReqEnv,    \* process.env.RATE_LIMIT_MAX_REQ (0: not set)
  authHits,     \* store of authRateLimiter: key -> [totalHits, resetTime]
  apiHits,      \* store of apiRateLimiter:  key -> [totalHits, resetTime]
  issued,       \* the tokens login has signed so far
  batches,      \* the EmailBatch rows of the database, in order of creation
  env,          \* process.env: the four required variables
  pc,           \* the server process: start, listening or exited
  exitCode,     \* the code the process exited with
  last,         \* the request handled in this turn, and its outcome
  pending,      \* requests a limiter has counted and not yet decided
  decided,      \* requests a limiter has admitted or rejected
  token,        \* AuthProvider state: the token in memory (<< >>: null)
  isLoading,    \* AuthProvider state: a login is in progress
  error,        \* AuthProvider state: last login error ("": null)
  initialized,  \* AuthProvider state: the mount effect has run
  lsJwt,        \* localStorage['jwt'] (<< >>: no entry)
  lsExpiry,     \* localStorage['jwt_expiry'], decimal digits (<< >>: no entry)
  timers,       \* the pending setTimeouts of the auto-logout effect
  cleanup,      \* the timer the cleanup of the last effect run clears
  effectToken,  \* the token value the auto-logout effect last ran for
  loginCall,    \* the fetch of login() in flight
  calls,        \* the protected fetches in flight
  submission,   \* Form state: idle, submitting, success or error
  errors,       \* Form state: the validation message shown per field
  webhooks,     \* the webhook fetches in flight
  buildEnv,     \* import.meta.env.VITE_N8N_SECRET of the client build
  input,        \* the fields a function of lib/validation.ts is called with
  output,       \* what the functions of lib/validation.ts returned for them
  ev            \* the client callback that ran in this step

bootVars == << env, pc, exitCode >>

limiterVars == << pending, decided >>

serverVars ==
  << now, maxReqEnv, authHits, apiHits, issued, batches, last, bootVars,
     limiterVars >>

authVars == << token, isLoading, error, initialized, lsJwt, lsExpiry,
               timers, cleanup, effectToken >>

formVars == << submission, errors, webhooks >>

libVars == << input, output >>

clientVars ==
  << authVars, loginCall, calls, ev, formVars, buildEnv, libVars >>

vars == << serverVars, clientVars >>

\* ------------------------------------------------------------------------
\* Rate limiting (express-rate-limit with its in-memory store)
\* ------------------------------------------------------------------------

\* Where a request comes from: its X-Forwarded-For header and req.ip.
Direct == [xff |-> NoHeader, ip |-> << Word("10.0.0.1") >>]

\* Behind one trusted proxy hop ('trust proxy', 1) req.ip is the last
\* address of the chain.
Proxied ==
  [xff |-> << Word("10.0.0.2"), COMMA, SP, Word("10.0.0.9") >>,
   ip  |-> << Word("10.0.0.9") >>]

Sources == { Direct, Proxied }

\* More places a request comes from: a chain with a space before the comma,
\* a chain of one address, a chain whose first element is empty, an empty
\* header, and a request without header and without req.ip.
KeySources ==
  Sources \cup
  { [xff |-> << Word("10.0.0.2"), SP, COMMA, Word("10.0.0.9") >>,
     ip  |-> << Word("10.0.0.9") >>],
    [xff |-> << Word("10.0.0.1") >>, ip |-> << Word("10.0.0.1") >>],
    [xff |-> << COMMA, SP, Word("10.0.0.9") >>, ip |-> << Word("10.0.0.9") >>],
    [xff |-> << >>, ip |-> << Word("10.0.0.1") >>],
    [xff |-> NoHeader, ip |-> << >>] }

\* A generator that prefers req.ip to the forwarded-for chain.
keyGenerator_IpFirst(src) ==
  LET fwd == IF src.xff = NoHeader THEN << >>
             ELSE Trim(Split(src.xff, COMMA)[1])
  IN  IF src.ip # << >> THEN src.ip
      ELSE IF fwd # << >> THEN fwd
      ELSE << Word("unknown") >>

\* x-forwarded-for?.split(',')[0].trim() || req.ip || 'unknown'
keyGenerator(src) ==
  LET fwd == IF src.xff = NoHeader THEN << >>
             ELSE Trim(Split(src.xff, COMMA)[1])
  IN  IF fwd # << >> THEN fwd
      ELSE IF src.ip # << >> THEN src.ip
      ELSE << Word("unknown") >>

Keys == { keyGenerator(s) : s \in KeySources }

NoClient == [totalHits |-> 0, resetTime |-> 0]

\* An increment that never starts a new window once one is open.
Increment_NoReset(store, key, nowMs) ==
  LET client == store[key]
      cur == IF client.totalHits = 0
               THEN [totalHits |-> 0, resetTime |-> nowMs + windowMs]
               ELSE client
  IN  [cur EXCEPT !.totalHits = @ + 1]

\* MemoryStore.increment(key): a client whose window has elapsed starts a new
\* window of windowMs from now; then the hit is counted.
Increment(store, key, nowMs) ==
  LET client == store[key]
      cur == IF client.resetTime <= nowMs
               THEN [totalHits |-> 0, resetTime |-> nowMs + windowMs]
               ELSE client
  IN  [cur EXCEPT !.totalHits = @ + 1]

MAX_REQUESTS == IF maxReqEnv = 0 THEN DEFAULT_MAX_REQ ELSE maxReqEnv

\* The limiter lets a request through while totalHits <= max.
Admits(client, max) == client.totalHits <= max

\* ------------------------------------------------------------------------
\* POST /auth/login (routes/auth.ts)
\* ------------------------------------------------------------------------

\* A middleware or handler result: the response it sends, or next().
Reply(status, code) ==
  [next |-> FALSE, status |-> status, code |-> code, token |-> << >>,
   expiresIn |-> 0, user |-> NoPayload, verifyCalled |-> FALSE,
   handlerRan |-> FALSE, dbCalls |-> 0, created |-> << >>,
   batch |-> << >>, recipientCount |-> 0,
   logs |-> << >>, total |-> 0, limit |-> 0, offset |-> 0]

CallNext == [Reply(0, "") EXCEPT !.next = TRUE]

\* Request bodies of login: the password field may be missing.
NoBody == [hasPassword |-> FALSE, password |-> ""]

LoginBodies ==
  { NoBody } \cup
  { [hasPassword |-> TRUE, password |-> pw] : pw \in {"", ACCESS_PASSWORD, "letmein"} }

\* loginSchema: z.object({ password: z.string().min(1) })
loginSchema(body) == body.hasPassword /\ body.password # ""

\* A login handler without the password comparison.
loginHandler_AnyPassword(body, nowMs) ==
  IF ~loginSchema(body) THEN Reply(400, "VALIDATION_ERROR")
  ELSE [Reply(200, "") EXCEPT
          !.token = << JwtSign([sub |-> "admin", role |-> "admin"], JWT_SECRET,
                               ms(TOKEN_EXPIRATION) \div 1000, nowMs) >>,
          !.expiresIn = TOKEN_EXPIRATION_SECONDS]

\* A login handler that signs with the access password instead of JWT_SECRET.
loginHandler_WrongSecret(body, nowMs) ==
  IF ~loginSchema(body) THEN Reply(400, "VALIDATION_ERROR")
  ELSE IF body.password # ACCESS_PASSWORD THEN Reply(401, "INVALID_PASSWORD")
  ELSE [Reply(200, "") EXCEPT
          !.token = << JwtSign([sub |-> "admin", role |-> "admin"],
                               ACCESS_PASSWORD,
                               ms(TOKEN_EXPIRATION) \div 1000, nowMs) >>,
          !.expiresIn = TOKEN_EXPIRATION_SECONDS]

\* A handler that signs the role "user".
loginHandler_RoleUser(body, nowMs) ==
  IF ~loginSchema(body) THEN Reply(400, "VALIDATION_ERROR")
  ELSE IF body.password # ACCESS_PASSWORD THEN Reply(401, "INVALID_PASSWORD")
  ELSE [Reply(200, "") EXCEPT
          !.token = << JwtSign([sub |-> "admin", role |-> "user"], JWT_SECRET,
                               ms(TOKEN_EXPIRATION) \div 1000, nowMs) >>,
          !.expiresIn = TOKEN_EXPIRATION_SECONDS]

\* The handler of router.post('/login'), after authRateLimiter admitted.
loginHandler(body, nowMs) ==
  IF ~loginSchema(body) THEN Reply(400, "VALIDATION_ERROR")
  ELSE IF body.password # ACCESS_PASSWORD THEN Reply(401, "INVALID_PASSWORD")
  ELSE [Reply(200, "") EXCEPT
          !.token = << JwtSign([sub |-> "admin", role |-> "admin"], JWT_SECRET,
                               ms(TOKEN_EXPIRATION) \div 1000, nowMs) >>,
          !.expiresIn = TOKEN_EXPIRATION_SECONDS]

\* authRateLimiter, then the handler.
loginRoute(client, body, nowMs) ==
  IF ~Admits(client, AUTH_MAX) THEN Reply(429, "AUTH_RATE_LIMIT_EXCEEDED")
  ELSE loginHandler(body, nowMs)

\* ------------------------------------------------------------------------
\* Guards of /api (requireApiKey.ts, requireAuth.ts) and the router
\* ------------------------------------------------------------------------

\* JavaScript !header: undefined or the empty string.
Falsy(header) == header = NoHeader \/ header = << >>

\* A gate that only checks that the header is there.
requireApiKey_PresenceOnly(req) ==
  IF Falsy(req.apiKey) THEN Reply(401, "MISSING_API_KEY")
  ELSE CallNext

requireApiKey(req) ==
  IF Falsy(req.apiKey) THEN Reply(401, "MISSING_API_KEY")
  ELSE IF req.apiKey # << Word(API_KEY_FRONTEND) >> THEN Reply(401, "INVALID_API_KEY")
  ELSE CallNext

\* A token middleware that attaches the payload before it looks at the
\* verdict: an expired token is answered 401 with the identity attached.
requireAuth_IdentityOnExpiry(req, nowMs) ==
  IF Falsy(req.auth) THEN Reply(401, "MISSING_AUTH_HEADER")
  ELSE
    LET parts == Split(req.auth, SP) IN
    IF Len(parts) # 2 \/ parts[1] # << Word("Bearer") >>
      THEN Reply(401, "INVALID_AUTH_FORMAT")
    ELSE
      LET v == JwtVerify(parts[2], JWT_SECRET, nowMs) IN
      IF v.err = ""
        THEN [CallNext EXCEPT !.user = v.decoded, !.verifyCalled = TRUE]
      ELSE IF v.err = "TokenExpiredError"
        THEN [Reply(401, "TOKEN_EXPIRED")
                EXCEPT !.verifyCalled = TRUE, !.user = parts[2][1].p]
      ELSE [Reply(401, "INVALID_TOKEN") EXCEPT !.verifyCalled = TRUE]

\* A token middleware with a session table: a token passes only while the
\* client it was issued to still holds it.
requireAuth_OpenSession(req, nowMs) ==
  IF Falsy(req.auth) THEN Reply(401, "MISSING_AUTH_HEADER")
  ELSE
    LET parts == Split(req.auth, SP) IN
    IF Len(parts) # 2 \/ parts[1] # << Word("Bearer") >>
      THEN Reply(401, "INVALID_AUTH_FORMAT")
    ELSE
      LET v == JwtVerify(parts[2], JWT_SECRET, nowMs) IN
      IF v.err = "" /\ token = parts[2]
        THEN [CallNext EXCEPT !.user = v.decoded, !.verifyCalled = TRUE]
        ELSE [Reply(401, IF v.err = "TokenExpiredError" THEN "TOKEN_EXPIRED"
                         ELSE "INVALID_TOKEN")
                EXCEPT !.verifyCalled = TRUE]

\* A token middleware that checks the scheme but not the number of parts.
requireAuth_SchemeOnly(req, nowMs) ==
  IF Falsy(req.auth) THEN Reply(401, "MISSING_AUTH_HEADER")
  ELSE
    LET parts == Split(req.auth, SP) IN
    IF Len(parts) < 2 \/ parts[1] # << Word("Bearer") >>
      THEN Reply(401, "INVALID_AUTH_FORMAT")
    ELSE
      LET v == JwtVerify(parts[2], JWT_SECRET, nowMs) IN
      IF v.err = ""
        THEN [CallNext EXCEPT !.user = v.decoded, !.verifyCalled = TRUE]
        ELSE [Reply(401, IF v.err = "TokenExpiredError" THEN "TOKEN_EXPIRED"
                         ELSE "INVALID_TOKEN")
                EXCEPT !.verifyCalled = TRUE]

requireAuth(req, nowMs) ==
  IF Falsy(req.auth) THEN Reply(401, "MISSING_AUTH_HEADER")
  ELSE
    LET parts == Split(req.auth, SP) IN
    IF Len(parts) # 2 \/ parts[1] # << Word("Bearer") >>
      THEN Reply(401, "INVALID_AUTH_FORMAT")
    ELSE
      LET v == JwtVerify(parts[2], JWT_SECRET, nowMs) IN
      IF v.err = ""
        THEN [CallNext EXCEPT !.user = v.decoded, !.verifyCalled = TRUE]
        ELSE [Reply(401, IF v.err = "TokenExpiredError" THEN "TOKEN_EXPIRED"
                         ELSE "INVALID_TOKEN")
                EXCEPT !.verifyCalled = TRUE]

Routes == {"POST /log-email-batch", "GET /email-logs", "GET /email-logs/:id"}

\* The body of a log request (LogBatchPayload); NoBatch: no body.
NoBatch ==
  [holidayName |-> << >>, senderName |-> << >>, recipients |-> << >>,
   status |-> "", errorMessage |-> ""]

\* Two addresses.
EmailAB == << Word("a"), AT, Word("b"), DOT, Word("com") >>

EmailCD == << Word("c"), AT, Word("d"), DOT, Word("org") >>

\* A field the JSON body does not have.
Absent == << Word("<absent>") >>

\* A list field the JSON body does not have.
AbsentList == << Absent >>

\* z.string().email(): no whitespace, one @ with a local part that neither
\* starts nor ends with a dot, no two dots in a row, and a domain of labels
\* separated by dots that ends in a label.
zodEmail(e) ==
  /\ Len(e) >= 5
  /\ \A k \in 1..Len(e) : e[k] \notin WS
  /\ \A k \in 1..(Len(e) - 1) : ~(e[k] = DOT /\ e[k + 1] = DOT)
  /\ e[1] # DOT
  /\ e[Len(e)] \notin { DOT, AT }
  /\ \E i \in 2..Len(e) :
       /\ e[i] = AT
       /\ \A k \in 1..Len(e) : e[k] = AT => k = i
       /\ e[i - 1] # DOT
       /\ e[i + 1] # DOT
       /\ \E j \in (i + 2)..(Len(e) - 1) : e[j] = DOT

StatusEnum == { "queued", "sent", "error" }

\* A schema without the per-recipient email check.
LogEmailBatchSchema_NoEmailCheck(body) ==
  [success |->
     /\ body.holidayName # Absent /\ Len(body.holidayName) >= 1
     /\ body.senderName # Absent /\ Len(body.senderName) >= 1
     /\ body.recipients # AbsentList /\ Len(body.recipients) >= 1
     /\ body.status \in StatusEnum \cup { "" },
   data |-> [body EXCEPT !.status = IF @ = "" THEN "sent" ELSE @]]

\* LogEmailBatchSchema.safeParse(body): status "" stands for a body without
\* status, which the schema defaults to 'sent'.
LogEmailBatchSchema(body) ==
  [success |->
     /\ body.holidayName # Absent /\ Len(body.holidayName) >= 1
     /\ body.senderName # Absent /\ Len(body.senderName) >= 1
     /\ body.recipients # AbsentList /\ Len(body.recipients) >= 1
     /\ \A i \in 1..Len(body.recipients) : zodEmail(body.recipients[i])
     /\ body.status \in StatusEnum \cup { "" },
   data |-> [body EXCEPT !.status = IF @ = "" THEN "sent" ELSE @]]

\* prisma.emailBatch.create({data, include: {recipients: true}}): one row
\* with its recipients, written as a whole.
emailBatchCreate(store, data, nowMs) ==
  [id |-> Len(store) + 1, createdAt |-> nowMs,
   holidayName |-> data.holidayName, senderName |-> data.senderName,
   status |-> data.status, errorMessage |-> data.errorMessage,
   recipients |-> data.recipients]

\* A lookup that returns the newest row whatever the id.
emailBatchFindUnique_Latest(store, id) ==
  IF store # << >> THEN << store[Len(store)] >> ELSE << >>

\* prisma.emailBatch.findUnique({where: {id}}): the row, if there is one.
emailBatchFindUnique(store, id) ==
  IF id \in 1..Len(store) THEN << store[id] >> ELSE << >>

\* The characters of a query value: digits, the minus sign, the dot (DOT)
\* and letters.
MINUS == Word("-")

DigitChars == << "0", "1", "2", "3", "4", "5", "6", "7", "8", "9" >>

Digit(n) == Word(DigitChars[n + 1])

IsDigit(c) == \E n \in 0..9 : c = Digit(n)

DigitValue(c) == CHOOSE n \in 0..9 : c = Digit(n)

RECURSIVE DigitsValue(_)
DigitsValue(s) ==
  IF s = << >> THEN 0
  ELSE DigitsValue(SubSeq(s, 1, Len(s) - 1)) * 10 + DigitValue(s[Len(s)])

RECURSIVE Pow10(_)
Pow10(n) == IF n = 0 THEN 1 ELSE 10 * Pow10(n - 1)

\* A JavaScript number as the fraction num / den (den a power of ten), or NaN.
NotANumber == [nan |-> TRUE, num |-> 0, den |-> 1]

Whole(n) == [nan |-> FALSE, num |-> n, den |-> 1]

IsInteger(x) == ~x.nan /\ x.num % x.den = 0

\* The decimal with the digits whole before the dot and frac after it.
FractionOf(whole, frac) ==
  [nan |-> FALSE,
   num |-> DigitsValue(whole) * Pow10(Len(frac)) + DigitsValue(frac),
   den |-> Pow10(Len(frac))]

\* The place of the dot in body: past its end when it has none, 0 when it
\* has several.
DotIn(body) ==
  LET dots == { k \in 1..Len(body) : body[k] = DOT }
  IN  IF dots = {} THEN Len(body) + 1
      ELSE IF Cardinality(dots) > 1 THEN 0
      ELSE CHOOSE k \in dots : TRUE

\* Digits around at most one dot, at least one digit.
UnsignedAt(body, dot) ==
  IF \/ dot = 0
     \/ Len(body) = 0
     \/ body = << DOT >>
     \/ \E k \in 1..Len(body) : k # dot /\ ~IsDigit(body[k])
    THEN NotANumber
  ELSE FractionOf(SubSeq(body, 1, dot - 1), SubSeq(body, dot + 1, Len(body)))

Negate(x) == [x EXCEPT !.num = -@]

Decimal(t) ==
  IF t = << >> THEN Whole(0)
  ELSE IF t[1] = MINUS THEN Negate(UnsignedAt(Tail(t), DotIn(Tail(t))))
  ELSE UnsignedAt(t, DotIn(t))

\* Number(text) on a string: blank is 0; an optional minus, digits and at
\* most one dot with a digit on one side of it is that decimal; anything
\* else is NaN.
Number(text) == Decimal(Trim(text))

\* req.query of GET /email-logs: each parameter is its text, or Absent.
NoQuery == [limit |-> Absent, offset |-> Absent, status |-> Absent]

\* z.coerce.number()...default(d): d when the parameter is absent, Number()
\* of its text otherwise.
Coerce(text, d) == IF text = Absent THEN Whole(d) ELSE Number(text)

\* Checks without the upper end of limit.
QueryChecks_NoMax(limit, offset, status) ==
  [success |->
     /\ ~limit.nan /\ limit.num >= 1 * limit.den
     /\ ~offset.nan /\ offset.num >= 0 * offset.den
     /\ \/ status = Absent
        \/ \E st \in StatusEnum : status = << Word(st) >>,
   data |-> [limit |-> limit, offset |-> offset, status |-> status]]

\* limit: a number, min(1), max(100); offset: a number, min(0); status: one
\* of the enum, or absent.
QueryChecks(limit, offset, status) ==
  [success |->
     /\ ~limit.nan /\ limit.num >= 1 * limit.den
     /\ limit.num <= 100 * limit.den
     /\ ~offset.nan /\ offset.num >= 0 * offset.den
     /\ \/ status = Absent
        \/ \E st \in StatusEnum : status = << Word(st) >>,
   data |-> [limit |-> limit, offset |-> offset, status |-> status]]

\* GetEmailLogsQuerySchema.safeParse(req.query): limit and offset are coerced
\* with Number() when present and default to 20 and 0.
GetEmailLogsQuerySchema(query) ==
  QueryChecks(Coerce(query.limit, 20), Coerce(query.offset, 0), query.status)

\* where: { status } when the query has one, {} otherwise.
RECURSIVE Where(_, _)
Where(rows, status) ==
  IF rows = << >> THEN << >>
  ELSE LET rest == Where(Tail(rows), status) IN
       IF status = Absent \/ << Word(Head(rows).status) >> = status
         THEN << Head(rows) >> \o rest
         ELSE rest

\* orderBy: { createdAt: 'desc' }: a later row first; the database decides
\* between rows of the same instant (dbOrder: the older or the newer id
\* first).
Before(a, b, dbOrder) ==
  \/ a.createdAt > b.createdAt
  \/ /\ a.createdAt = b.createdAt
     /\ IF dbOrder = "asc" THEN a.id <= b.id ELSE a.id >= b.id

RECURSIVE OrderBy(_, _)
OrderBy(rows, dbOrder) ==
  IF rows = << >> THEN << >>
  ELSE LET i == CHOOSE k \in 1..Len(rows) :
                  \A j \in 1..Len(rows) : Before(rows[k], rows[j], dbOrder)
       IN  << rows[i] >>
           \o OrderBy(SubSeq(rows, 1, i - 1) \o SubSeq(rows, i + 1, Len(rows)),
                      dbOrder)

\* prisma.emailBatch.findMany({where, orderBy, take, skip, include}).
emailBatchFindMany(store, status, take, skip, dbOrder) ==
  LET rows == OrderBy(Where(store, status), dbOrder)
      end == IF skip + take < Len(rows) THEN skip + take ELSE Len(rows)
  IN  SubSeq(rows, skip + 1, end)

\* prisma.emailBatch.count({where}).
emailBatchCount(store, status) == Len(Where(store, status))

\* One element of logs: the batch with the number of its recipients.
LogOf(batch) ==
  [id |-> batch.id, createdAt |-> batch.createdAt,
   holidayName |-> batch.holidayName, senderName |-> batch.senderName,
   status |-> batch.status, errorMessage |-> batch.errorMessage,
   recipientCount |-> Len(batch.recipients)]

\* res.json({ok, logs, total, limit, offset}) after the two queries.
LogsPage(ran, found, total, take, skip) ==
  [ran EXCEPT !.dbCalls = 2,
              !.logs = [k \in 1..Len(found) |-> LogOf(found[k])],
              !.total = total, !.limit = take, !.offset = skip]

\* The handler of GET /email-logs after safeParse: 400 when the parse
\* failed, else findMany and count, which throw when the database cannot be
\* reached and when take or skip is not an integer.
getEmailLogs(parsed, req, ran, store) ==
  IF ~parsed.success THEN [ran EXCEPT !.status = 400]
  ELSE IF \/ ~req.dbUp
          \/ ~IsInteger(parsed.data.limit)
          \/ ~IsInteger(parsed.data.offset)
    THEN [ran EXCEPT !.status = 500, !.dbCalls = 2]
  ELSE LogsPage(ran,
                emailBatchFindMany(store, parsed.data.status,
                                   parsed.data.limit.num \div parsed.data.limit.den,
                                   parsed.data.offset.num \div parsed.data.offset.den,
                                   req.dbOrder),
                emailBatchCount(store, parsed.data.status),
                parsed.data.limit.num \div parsed.data.limit.den,
                parsed.data.offset.num \div parsed.data.offset.den)

\* emailLogsRouter: each handler validates its input, then calls prisma; a
\* prisma call that throws (req.dbUp false: the database cannot be reached)
\* goes to the global error handler, which answers 500.
emailLogsRouter(req, user, store, nowMs) ==
  LET ran == [Reply(200, "") EXCEPT !.handlerRan = TRUE, !.user = user,
                                    !.verifyCalled = TRUE]
      failed == [ran EXCEPT !.status = 500]
  IN  IF req.route = "POST /log-email-batch"
        THEN LET parsed == LogEmailBatchSchema(req.log) IN
             IF ~parsed.success THEN [ran EXCEPT !.status = 400]
             ELSE IF ~req.dbUp THEN [failed EXCEPT !.dbCalls = 1]
             ELSE LET row == emailBatchCreate(store, parsed.data, nowMs) IN
                  [ran EXCEPT !.status = 201, !.dbCalls = 1,
                              !.created = << row >>,
                              !.recipientCount = Len(row.recipients)]
      ELSE IF req.route = "GET /email-logs"
        THEN getEmailLogs(GetEmailLogsQuerySchema(req.query), req, ran, store)
      ELSE IF ~req.dbUp THEN [failed EXCEPT !.dbCalls = 1]
      ELSE LET found == emailBatchFindUnique(store, req.id) IN
           IF found = << >> THEN [ran EXCEPT !.status = 404, !.dbCalls = 1]
           ELSE [ran EXCEPT !.dbCalls = 1, !.batch = found]

\* A chain that mounts requireAuth before requireApiKey.
apiRoute_AuthBeforeKey(client, max, req, nowMs, store) ==
  IF ~Admits(client, max) THEN Reply(429, "RATE_LIMIT_EXCEEDED")
  ELSE LET a == requireAuth(req, nowMs) IN
       IF ~a.next THEN a
       ELSE LET k == requireApiKey(req) IN
            IF ~k.next THEN k
            ELSE emailLogsRouter(req, a.user, store, nowMs)

\* A chain mounted without requireApiKey.
apiRoute_NoApiKeyGate(client, max, req, nowMs, store) ==
  IF ~Admits(client, max) THEN Reply(429, "RATE_LIMIT_EXCEEDED")
  ELSE LET a == requireAuth(req, nowMs) IN
       IF ~a.next THEN a
       ELSE emailLogsRouter(req, a.user, store, nowMs)

\* app.use('/api', apiRateLimiter, requireApiKey, requireAuth, emailLogsRouter)
apiRoute(client, max, req, nowMs, store) ==
  IF ~Admits(client, max) THEN Reply(429, "RATE_LIMIT_EXCEEDED")
  ELSE LET k == requireApiKey(req) IN
       IF ~k.next THEN k
       ELSE LET a == requireAuth(req, nowMs) IN
            IF ~a.next THEN a
            ELSE emailLogsRouter(req, a.user, store, nowMs)

\* ------------------------------------------------------------------------
\* Requests the server can receive
\* ------------------------------------------------------------------------

\* A token whose payload was altered after signing (a later exp).
Tamper(t) == [t EXCEPT !.p.exp = @ + TOKEN_EXPIRATION_SECONDS]

\* A token signed by somebody who does not hold JWT_SECRET.
Forged(nowMs) ==
  JwtSign([sub |-> "admin", role |-> "admin"], "attacker-secret",
          TOKEN_EXPIRATION_SECONDS, nowMs)

Garbage == Word("not-a-jwt")

PresentableTokens ==
  issued \cup { Tamper(t) : t \in issued } \cup { Forged(now), Garbage }

ApiKeyHeaders ==
  { NoHeader, << >>, << Word(API_KEY_FRONTEND) >>, << Word("other-key") >> }

\* Header values arrive without leading or trailing spaces (the HTTP parser
\* strips them); an empty value arrives as the empty string.
AuthHeaders ==
  { NoHeader, << >>, << Word("Bearer") >> }
  \cup { << Word("Bearer"), SP, t >> : t \in PresentableTokens }
  \cup UNION { { << Word("Basic"), SP, t >>,
                 << Word("bearer"), SP, t >>,
                 << Word("Bearer"), SP, SP, t >>,
                 << Word("Bearer"), SP, t, SP, Word("x") >> }
               : t \in IF issued = {} THEN { Garbage } ELSE issued }

NoReq ==
  [src |-> [xff |-> NoHeader, ip |-> << >>], body |-> NoBody,
   apiKey |-> NoHeader, auth |-> NoHeader, route |-> "", query |-> NoQuery,
   log |-> NoBatch, id |-> 0, dbUp |-> TRUE, dbOrder |-> "asc"]

LoginRequests ==
  { [NoReq EXCEPT !.src = s, !.body = b, !.route = "POST /auth/login"]
    : s \in Sources, b \in LoginBodies }

\* The log request the form sends for Christmas, Jane and a@b.com.
GoodLog ==
  [NoBatch EXCEPT !.holidayName = << Word("Christmas") >>,
                  !.senderName = << Word("Jane") >>,
                  !.recipients = << EmailAB >>,
                  !.status = "sent"]

\* The login request of the web client with the right password.
GoodLogin ==
  [NoReq EXCEPT !.src = Direct, !.route = "POST /auth/login",
                !.body = [hasPassword |-> TRUE, password |-> ACCESS_PASSWORD]]

\* Requests to /api from the web client's address: every Authorization header
\* with the right API key, every X-API-Key header with and without a signed
\* token, and every route with a signed token and the right key.
ApiRequests ==
  LET base == [NoReq EXCEPT !.src = Direct, !.route = "GET /email-logs/:id",
                            !.apiKey = << Word(API_KEY_FRONTEND) >>,
                            !.log = GoodLog, !.id = 1]
      signed == { << Word("Bearer"), SP, t >> : t \in issued }
  IN  { [base EXCEPT !.auth = a] : a \in AuthHeaders }
      \cup { [base EXCEPT !.apiKey = k, !.auth = a]
             : k \in ApiKeyHeaders, a \in { NoHeader } \cup signed }
      \cup { [base EXCEPT !.auth = a, !.route = r, !.query = q]
             : a \in signed, r \in Routes,
               q \in { NoQuery, [NoQuery EXCEPT !.limit = << Digit(0) >>] } }
      \cup { [base EXCEPT !.auth = a, !.dbUp = FALSE] : a \in signed }

NoLast == [kind |-> "none", req |-> NoReq, hits |-> 0, reply |-> Reply(0, "")]

\* ------------------------------------------------------------------------
\* Server actions
\* ------------------------------------------------------------------------

\* The handle of a timer: when it is due and the token it was scheduled for.
NoTimer == [set |-> FALSE, fireAt |-> 0, tok |-> << >>]

NoLoginCall == [open |-> FALSE, password |-> "", sentAt |-> 0]

\* What a fetch of login() resolves with: the status, whether the body is
\* JSON, and the fields of the body ("" and << >>: the field is not there).
NoResponse ==
  [status |-> 0, json |-> FALSE, ok |-> FALSE, token |-> << >>,
   expiresIn |-> 0, error |-> ""]

NoEv ==
  [op |-> "", status |-> 0, branch |-> "", sent |-> 0, resp |-> NoResponse]

\* A variable of the environment: not set, set to the empty string, or set
\* to a value.
Unset == [set |-> FALSE, value |-> ""]

EnvChoices(v) == { Unset, [set |-> TRUE, value |-> ""], [set |-> TRUE, value |-> v] }

\* The environment with which the process serves requests.
GoodEnv ==
  [DATABASE_URL     |-> [set |-> TRUE, value |-> "postgresql://db"],
   ACCESS_PASSWORD  |-> [set |-> TRUE, value |-> ACCESS_PASSWORD],
   JWT_SECRET       |-> [set |-> TRUE, value |-> JWT_SECRET],
   API_KEY_FRONTEND |-> [set |-> TRUE, value |-> API_KEY_FRONTEND]]

Envs ==
  [DATABASE_URL     : EnvChoices(GoodEnv.DATABASE_URL.value),
   ACCESS_PASSWORD  : EnvChoices(ACCESS_PASSWORD),
   JWT_SECRET       : EnvChoices(JWT_SECRET),
   API_KEY_FRONTEND : EnvChoices(API_KEY_FRONTEND)]

\* JavaScript !process.env.X: undefined or the empty string.
Missing(v) == ~v.set \/ v.value = ""

\* The build of the client that has a webhook secret.
GoodBuild == [set |-> TRUE, value |-> "n8n-secret"]

\* The server process is listening and the page of a client built under one
\* of builds has been loaded: nothing rendered yet, localStorage empty.
InitWith(builds, inputs) ==
  /\ buildEnv \in builds
  /\ input \in inputs
  /\ output = NoOutput
  /\ now = 0
  /\ env = GoodEnv
  /\ pc = "listening"
  /\ exitCode = 0
  /\ maxReqEnv \in {0, EnvMaxReq}
  /\ authHits = [k \in Keys |-> NoClient]
  /\ apiHits = [k \in Keys |-> NoClient]
  /\ issued = {}
  /\ batches = << >>
  /\ last = NoLast
  /\ pending = {}
  /\ decided = {}
  /\ token = << >>
  /\ isLoading = FALSE
  /\ error = ""
  /\ initialized = FALSE
  /\ lsJwt = << >>
  /\ lsExpiry = << >>
  /\ timers = {}
  /\ cleanup = NoTimer
  /\ effectToken = << >>
  /\ loginCall = NoLoginCall
  /\ calls = {}
  /\ ev = NoEv
  /\ submission = "idle"
  /\ errors = NoErrors
  /\ webhooks = {}

Init == InitWith({ GoodBuild }, { NoFields })

\* Time passes between two requests.
Tick(points) ==
  /\ last = NoLast
  /\ \E t \in points : t > now /\ now' = t
  /\ UNCHANGED << maxReqEnv, authHits, apiHits, issued, batches, last, bootVars,
                  limiterVars >>
  /\ UNCHANGED clientVars

\* A login limiter with skipFailedRequests: a request answered 4xx gives
\* its unit back.
Login_SkipFailed(req) ==
  LET key == keyGenerator(req.src)
      client == Increment(authHits, key, now)
      reply == loginRoute(client, req.body, now)
      new == { reply.token[i] : i \in 1..Len(reply.token) }
  IN  /\ pc = "listening"
      /\ last = NoLast
      /\ client.totalHits <= MaxHits
      /\ Cardinality(issued \cup new) <= MaxIssued
      /\ authHits' = IF reply.status >= 400 THEN authHits
                     ELSE [authHits EXCEPT ![key] = client]
      /\ issued' = issued \cup new
      /\ last' = [kind |-> "login", req |-> req,
                  hits |-> client.totalHits, reply |-> reply]
      /\ UNCHANGED << now, maxReqEnv, apiHits, batches, bootVars,
                  limiterVars >>
      /\ UNCHANGED clientVars

\* One POST /auth/login request, from the limiter to the response.
Login(req) ==
  LET key == keyGenerator(req.src)
      client == Increment(authHits, key, now)
      reply == loginRoute(client, req.body, now)
      new == { reply.token[i] : i \in 1..Len(reply.token) }
  IN  /\ pc = "listening"
      /\ last = NoLast
      /\ client.totalHits <= MaxHits
      /\ Cardinality(issued \cup new) <= MaxIssued
      /\ authHits' = [authHits EXCEPT ![key] = client]
      /\ issued' = issued \cup new
      /\ last' = [kind |-> "login", req |-> req,
                  hits |-> client.totalHits, reply |-> reply]
      /\ UNCHANGED << now, maxReqEnv, apiHits, batches, bootVars,
                  limiterVars >>
      /\ UNCHANGED clientVars

\* A server with authRateLimiter mounted in front of /api as well.
Api_CountsLogin(req) ==
  LET key == keyGenerator(req.src)
      client == Increment(apiHits, key, now)
      reply == apiRoute(client, MAX_REQUESTS, req, now, batches)
  IN  /\ pc = "listening"
      /\ last = NoLast
      /\ client.totalHits <= MaxApiHits
      /\ Len(batches) + Len(reply.created) <= MaxBatches
      /\ batches' = batches \o reply.created
      /\ apiHits' = [apiHits EXCEPT ![key] = client]
      /\ authHits' = [authHits EXCEPT ![key] = Increment(authHits, key, now)]
      /\ last' = [kind |-> "api", req |-> req,
                  hits |-> client.totalHits, reply |-> reply]
      /\ UNCHANGED << now, maxReqEnv, issued, bootVars,
                  limiterVars >>
      /\ UNCHANGED clientVars

\* One request to a route under /api, from the limiter to the response.
Api(req) ==
  LET key == keyGenerator(req.src)
      client == Increment(apiHits, key, now)
      reply == apiRoute(client, MAX_REQUESTS, req, now, batches)
  IN  /\ pc = "listening"
      /\ last = NoLast
      /\ client.totalHits <= MaxApiHits
      /\ Len(batches) + Len(reply.created) <= MaxBatches
      /\ batches' = batches \o reply.created
      /\ apiHits' = [apiHits EXCEPT ![key] = client]
      /\ last' = [kind |-> "api", req |-> req,
                  hits |-> client.totalHits, reply |-> reply]
      /\ UNCHANGED << now, maxReqEnv, authHits, issued, bootVars,
                  limiterVars >>
      /\ UNCHANGED clientVars

\* The response has been sent; the server waits for the next request.
EndTurn ==
  /\ last # NoLast
  /\ last' = NoLast
  /\ UNCHANGED << now, maxReqEnv, authHits, apiHits, issued, batches, bootVars,
                  limiterVars >>
  /\ UNCHANGED clientVars

\* The login endpoint under every request it can receive.
Next ==
  \/ Tick(LoginTimes)
  \/ \E req \in LoginRequests : Login(req)
  \/ EndTurn

Spec == Init /\ [][Next]_vars

\* The instants at which the log endpoints are observed.
LogTimes == {0, windowMs}

\* Bodies of POST /api/log-email-batch: the form's, and bodies with a field
\* missing, empty, or out of its domain.
LogBodies ==
  { GoodLog,
    [GoodLog EXCEPT !.status = ""],
    [GoodLog EXCEPT !.status = "delivered"],
    [GoodLog EXCEPT !.holidayName = Absent],
    [GoodLog EXCEPT !.holidayName = << >>],
    [GoodLog EXCEPT !.senderName = Absent],
    [GoodLog EXCEPT !.recipients = AbsentList],
    [GoodLog EXCEPT !.recipients = << >>],
    [GoodLog EXCEPT !.recipients = << EmailAB, << Word("bogus") >> >>],
    [GoodLog EXCEPT !.recipients = << EmailAB, EmailCD >>,
                    !.status = "error", !.errorMessage = "HTTP error"] }

\* Requests to the log endpoints that pass the guards.
LogRequests ==
  LET base == [NoReq EXCEPT !.src = Direct,
                            !.apiKey = << Word(API_KEY_FRONTEND) >>]
      signed == { << Word("Bearer"), SP, t >> : t \in issued }
  IN  { [base EXCEPT !.auth = a, !.route = "POST /log-email-batch",
                     !.log = b, !.dbUp = up]
        : a \in signed, b \in LogBodies, up \in BOOLEAN }
      \cup { [base EXCEPT !.auth = a, !.route = "GET /email-logs/:id",
                          !.id = id, !.dbUp = up]
             : a \in signed, id \in 1..(MaxBatches + 1), up \in BOOLEAN }

\* The log endpoints behind the guards, with the default request limit.
NextLog ==
  \/ Tick(LogTimes)
  \/ Login(GoodLogin) /\ authHits'[keyGenerator(Direct)].totalHits <= MaxLogins
  \/ \E req \in LogRequests : Api(req)
  \/ EndTurn

LogInit == Init /\ maxReqEnv = 0

LogSpec == LogInit /\ [][NextLog]_vars

\* Values of limit and offset in the query string.
LimitTexts ==
  { Absent, << >>, << Digit(0) >>, << Digit(1) >>, << Digit(2) >>,
    << Digit(1), Digit(0), Digit(0) >>, << Digit(1), Digit(0), Digit(1) >>,
    << Digit(1), DOT, Digit(5) >>, << Digit(2), DOT, Digit(0) >>,
    << MINUS, Digit(1) >>, << Word("abc") >> }

OffsetTexts ==
  { Absent, << >>, << Digit(0) >>, << Digit(1) >>, << Digit(2) >>,
    << MINUS, Digit(1) >>, << Digit(0), DOT, Digit(5) >>, << Word("abc") >> }

StatusTexts ==
  { Absent, << >>, << Word("delivered") >> }
  \cup { << Word(st) >> : st \in StatusEnum }

\* Queries of GET /api/email-logs: every limit, every offset under the
\* default limit and under limit 1, and every status on the first and on the
\* second page of one.
Queries ==
  { [NoQuery EXCEPT !.limit = l] : l \in LimitTexts }
  \cup { [NoQuery EXCEPT !.limit = l, !.offset = o, !.status = st]
         : l \in { Absent, << Digit(1) >> }, o \in OffsetTexts,
           st \in { Absent, << Word("sent") >> } }
  \cup { [NoQuery EXCEPT !.limit = << Digit(1) >>, !.offset = o, !.status = st]
         : o \in { Absent, << Digit(1) >> }, st \in StatusTexts }

\* Requests that pass the guards: batches of either status are logged, and
\* the list is read under every query.
PageRequests ==
  LET base == [NoReq EXCEPT !.src = Direct,
                            !.apiKey = << Word(API_KEY_FRONTEND) >>]
      signed == { << Word("Bearer"), SP, t >> : t \in issued }
  IN  { [base EXCEPT !.auth = a, !.route = "POST /log-email-batch", !.log = b]
        : a \in signed,
          b \in { GoodLog, [GoodLog EXCEPT !.status = "error",
                                           !.errorMessage = "HTTP error"] } }
      \cup { [base EXCEPT !.auth = a, !.route = "GET /email-logs",
                          !.query = q, !.dbOrder = o]
             : a \in signed, q \in Queries, o \in { "asc", "desc" } }
      \cup { [base EXCEPT !.auth = a, !.route = "GET /email-logs",
                          !.dbUp = FALSE]
             : a \in signed }

\* The list endpoint behind the guards, over a store that grows.
NextPage ==
  \/ Tick(LogTimes)
  \/ Login(GoodLogin) /\ authHits'[keyGenerator(Direct)].totalHits <= MaxLogins
  \/ \E req \in PageRequests : Api(req)
  \/ EndTurn

PageSpec == LogInit /\ [][NextPage]_vars

\* The requests limiter has counted so far.
Counted(limiter) ==
  { r \in pending : r.limiter = limiter }
  \cup { d.req : d \in { e \in decided : e.req.limiter = limiter } }

\* An increment that reads the counter before a request of the same key that
\* is still in the middleware has written it: its write is lost.
Arrive_LostUpdate(limiter, src) ==
  LET key == keyGenerator(src)
      store == IF limiter = "auth" THEN authHits ELSE apiHits
      client == IF \E r \in pending : r.limiter = limiter /\ r.key = key
                  THEN store[key]
                  ELSE Increment(store, key, now)
      n == Cardinality(Counted(limiter)) + 1
  IN  /\ pc = "listening"
      /\ last = NoLast
      /\ n <= IF limiter = "auth" THEN MaxConcLogins ELSE MaxConcApi
      /\ pending' = pending \cup
            { [n |-> n, limiter |-> limiter, key |-> key,
               totalHits |-> client.totalHits, resetTime |-> client.resetTime] }
      /\ IF limiter = "auth"
           THEN authHits' = [authHits EXCEPT ![key] = client] /\ UNCHANGED apiHits
           ELSE apiHits' = [apiHits EXCEPT ![key] = client] /\ UNCHANGED authHits
      /\ UNCHANGED << now, maxReqEnv, issued, batches, last, bootVars, decided >>
      /\ UNCHANGED clientVars

\* The rate-limit middleware up to its await: the key is derived and
\* store.increment(key) runs to completion; the request then waits for its
\* turn on the event loop while other requests arrive.
Arrive(limiter, src) ==
  LET key == keyGenerator(src)
      store == IF limiter = "auth" THEN authHits ELSE apiHits
      client == Increment(store, key, now)
      n == Cardinality(Counted(limiter)) + 1
  IN  /\ pc = "listening"
      /\ last = NoLast
      /\ n <= IF limiter = "auth" THEN MaxConcLogins ELSE MaxConcApi
      /\ pending' = pending \cup
            { [n |-> n, limiter |-> limiter, key |-> key,
               totalHits |-> client.totalHits, resetTime |-> client.resetTime] }
      /\ IF limiter = "auth"
           THEN authHits' = [authHits EXCEPT ![key] = client] /\ UNCHANGED apiHits
           ELSE apiHits' = [apiHits EXCEPT ![key] = client] /\ UNCHANGED authHits
      /\ UNCHANGED << now, maxReqEnv, issued, batches, last, bootVars, decided >>
      /\ UNCHANGED clientVars

\* The rate-limit middleware after its await: the totalHits the increment
\* returned is compared with max, and the request is passed on or answered
\* with 429.
Decide(r) ==
  /\ r \in pending
  /\ pending' = pending \ { r }
  /\ decided' = decided \cup
        { [req |-> r,
           admitted |-> Admits(r, IF r.limiter = "auth" THEN AUTH_MAX
                                  ELSE MAX_REQUESTS)] }
  /\ UNCHANGED << now, maxReqEnv, authHits, apiHits, issued, batches, last,
                  bootVars >>
  /\ UNCHANGED clientVars

\* The hits a limiter's store holds over all keys.
RECURSIVE SumHits(_, _)
SumHits(store, keys) ==
  IF keys = {} THEN 0
  ELSE LET k == CHOOSE k \in keys : TRUE
       IN  store[k].totalHits + SumHits(store, keys \ { k })

\* Requests from every place, to the login route with a wrong password and
\* to /api with and without the API key.
KeyLoginRequests ==
  { [NoReq EXCEPT !.src = s, !.route = "POST /auth/login",
                  !.body = [hasPassword |-> TRUE, password |-> "letmein"]]
    : s \in KeySources }

KeyApiRequests ==
  { [NoReq EXCEPT !.src = s, !.route = "GET /email-logs/:id", !.id = 1,
                  !.apiKey = k]
    : s \in KeySources, k \in { NoHeader, << Word(API_KEY_FRONTEND) >> } }

\* The two limiters under requests from every place.
NextKey ==
  \/ Tick(LogTimes)
  \/ \E req \in KeyLoginRequests :
       Login(req) /\ SumHits(authHits', Keys) + SumHits(apiHits', Keys) <= MaxKeyHits
  \/ \E req \in KeyApiRequests :
       Api(req) /\ SumHits(authHits', Keys) + SumHits(apiHits', Keys) <= MaxKeyHits
  \/ EndTurn

KeyInit == Init /\ maxReqEnv = EnvMaxReq

KeySpec == KeyInit /\ [][NextKey]_vars

\* Both routes under every request of the web client's address: every login
\* body, and every header of /api.
NextBudget ==
  \/ Tick(LoginTimes)
  \/ \E b \in LoginBodies :
       /\ Login([GoodLogin EXCEPT !.body = b])
       /\ authHits'[keyGenerator(Direct)].totalHits <= MaxLogins
  \/ \E req \in ApiRequests : Api(req) /\ Len(batches') <= MaxApiBatches
  \/ EndTurn

BudgetSpec == KeyInit /\ [][NextBudget]_vars

\* Requests of one source that overlap in the two limiters.
NextConc ==
  \/ Tick(LogTimes)
  \/ \E limiter \in {"auth", "api"} : Arrive(limiter, Direct)
  \/ \E r \in pending : Decide(r)

ConcSpec == KeyInit /\ [][NextConc]_vars

\* A startup that does not look at API_KEY_FRONTEND.
StartServer_NoApiKeyCheck ==
  /\ pc = "start"
  /\ IF \/ Missing(env.DATABASE_URL)
        \/ Missing(env.ACCESS_PASSWORD)
        \/ Missing(env.JWT_SECRET)
       THEN pc' = "exited" /\ exitCode' = 1
       ELSE pc' = "listening" /\ exitCode' = exitCode
  /\ UNCHANGED << now, maxReqEnv, authHits, apiHits, issued, batches, last, env,
                  limiterVars >>
  /\ UNCHANGED clientVars

\* server.ts from its first statement to app.listen: each required variable
\* that is missing ends the process with process.exit(1).
StartServer ==
  /\ pc = "start"
  /\ IF Missing(env.DATABASE_URL) THEN pc' = "exited" /\ exitCode' = 1
     ELSE IF Missing(env.ACCESS_PASSWORD) THEN pc' = "exited" /\ exitCode' = 1
     ELSE IF Missing(env.JWT_SECRET) THEN pc' = "exited" /\ exitCode' = 1
     ELSE IF Missing(env.API_KEY_FRONTEND) THEN pc' = "exited" /\ exitCode' = 1
     ELSE pc' = "listening" /\ exitCode' = exitCode
  /\ UNCHANGED << now, maxReqEnv, authHits, apiHits, issued, batches, last, env,
                  limiterVars >>
  /\ UNCHANGED clientVars

\* The process is started under every environment, and then serves logins.
BootInit ==
  /\ buildEnv = GoodBuild
  /\ input = NoFields
  /\ output = NoOutput
  /\ now = 0
  /\ maxReqEnv \in {0, EnvMaxReq}
  /\ env \in Envs
  /\ pc = "start"
  /\ exitCode = 0
  /\ authHits = [k \in Keys |-> NoClient]
  /\ apiHits = [k \in Keys |-> NoClient]
  /\ issued = {}
  /\ batches = << >>
  /\ last = NoLast
  /\ pending = {}
  /\ decided = {}
  /\ token = << >>
  /\ isLoading = FALSE
  /\ error = ""
  /\ initialized = FALSE
  /\ lsJwt = << >>
  /\ lsExpiry = << >>
  /\ timers = {}
  /\ cleanup = NoTimer
  /\ effectToken = << >>
  /\ loginCall = NoLoginCall
  /\ calls = {}
  /\ ev = NoEv
  /\ submission = "idle"
  /\ errors = NoErrors
  /\ webhooks = {}

NextBoot ==
  \/ StartServer
  \/ \E req \in LoginRequests : Login(req) /\ authHits'[keyGenerator(req.src)].totalHits <= MaxLogins
  \/ EndTurn

BootSpec == BootInit /\ [][NextBoot]_vars

\* The /api guard chain, with sessions opened by the web client.
NextApi ==
  \/ Tick(ApiTimes)
  \/ Login(GoodLogin) /\ authHits'[keyGenerator(Direct)].totalHits <= MaxLogins
  \/ \E req \in ApiRequests : Api(req) /\ Len(batches') <= MaxApiBatches
  \/ EndTurn

ApiInit == Init /\ maxReqEnv = EnvMaxReq

ApiSpec == ApiInit /\ [][NextApi]_vars

\* ------------------------------------------------------------------------
\* Browser: AuthProvider and the protected calls (AuthContext.tsx, App.tsx)
\* ------------------------------------------------------------------------

\* Number.prototype.toString(): the decimal digits of a non-negative integer.
RECURSIVE toString(_)
toString(n) == IF n < 10 THEN << n >> ELSE Append(toString(n \div 10), n % 10)

\* parseInt(s, 10) yields NaN when s does not start with a digit.
NaN == -1

RECURSIVE ParseDigits(_, _, _)
ParseDigits(s, i, acc) ==
  IF i > Len(s) \/ s[i] \notin 0..9 THEN acc
  ELSE ParseDigits(s, i + 1, acc * 10 + s[i])

parseInt(s) ==
  IF s = << >> \/ s[1] \notin 0..9 THEN NaN ELSE ParseDigits(s, 1, 0)

\* What AppContent shows: nothing before the mount effect has run, then the
\* login view or the application.
View ==
  IF ~initialized THEN "nothing"
  ELSE IF token = << >> THEN "login" ELSE "app"

\* A passive effect of the last commit has not run yet.
EffectPending == initialized /\ effectToken # token

\* The passwords a user types into the login form.
TypedPasswords ==
  { << >>, << SP >>, << SP, SP >>,
    << Word(ACCESS_PASSWORD) >>, << Word("letmein") >>,
    << SP, Word(ACCESS_PASSWORD) >> }

\* The status codes a protected call can come back with; 0: fetch rejected.
Statuses == {0, 200, 201, 400, 401, 403, 404, 429, 500}

\* A check that only knows 401.
handleAuthError_Only401(status) == status = 401

\* handleAuthError(response): true for 401 and 403.
handleAuthError(status) == status = 401 \/ status = 403

\* AppContent renders Login in place of the application when the token is
\* null: the Form is unmounted and its state is dropped (a Form mounted later
\* starts idle); a webhook fetch in flight continues without its Form.
FormUnmount ==
  /\ submission' = "idle"
  /\ errors' = NoErrors
  /\ webhooks' = { [w EXCEPT !.orphan = TRUE] : w \in webhooks }

\* The commit that follows a step of AuthProvider.
FormFollows ==
  IF token # << >> /\ token' = << >> THEN FormUnmount ELSE UNCHANGED formVars

\* A mount effect that restores whatever is stored, expired or not.
Mount_NoExpiryCheck ==
  /\ ~initialized
  /\ token' = IF lsJwt # << >> /\ lsExpiry # << >> THEN lsJwt ELSE token
  /\ ev' = [NoEv EXCEPT !.op = "mount", !.branch = "restored"]
  /\ initialized' = TRUE
  /\ effectToken' = << >>
  /\ UNCHANGED << isLoading, error, lsJwt, lsExpiry, timers, cleanup,
                  loginCall, calls >>
  /\ UNCHANGED formVars
  /\ UNCHANGED << serverVars, buildEnv, libVars >>

\* Mount effect of AuthProvider: restore the stored session when both entries
\* exist and the stored expiry is in the future, drop them when it is not.
Mount ==
  /\ ~initialized
  /\ LET both == lsJwt # << >> /\ lsExpiry # << >>
         live == both /\ now < parseInt(lsExpiry)
     IN  /\ token' = IF live THEN lsJwt ELSE token
         /\ lsJwt' = IF both /\ ~live THEN << >> ELSE lsJwt
         /\ lsExpiry' = IF both /\ ~live THEN << >> ELSE lsExpiry
         /\ ev' = [NoEv EXCEPT !.op = "mount",
                     !.branch = IF ~both THEN "empty"
                                ELSE IF live THEN "restored" ELSE "expired"]
  /\ initialized' = TRUE
  /\ effectToken' = << >>
  /\ UNCHANGED << isLoading, error, timers, cleanup, loginCall, calls >>
  /\ UNCHANGED formVars
  /\ UNCHANGED << serverVars, buildEnv, libVars >>

\* An auto-logout effect that returns no cleanup: the timer of the previous
\* run stays scheduled.
AutoLogoutEffect_NoCleanup ==
  /\ EffectPending
  /\ effectToken' = token
  /\ IF token = << >> \/ lsExpiry = << >>
       THEN /\ UNCHANGED << timers, cleanup >>
            /\ ev' = [NoEv EXCEPT !.op = "effect", !.branch = "idle"]
            /\ UNCHANGED << token, lsJwt, lsExpiry >>
       ELSE LET timeUntilExpiry == parseInt(lsExpiry) - now
                timer == [set |-> TRUE, fireAt |-> now + timeUntilExpiry,
                          tok |-> token]
            IN  IF timeUntilExpiry <= 0
                  THEN /\ token' = << >>
                       /\ lsJwt' = << >>
                       /\ lsExpiry' = << >>
                       /\ UNCHANGED << timers, cleanup >>
                       /\ ev' = [NoEv EXCEPT !.op = "effect", !.branch = "expired"]
                  ELSE /\ timers' = timers \cup { timer }
                       /\ cleanup' = timer
                       /\ ev' = [NoEv EXCEPT !.op = "effect", !.branch = "scheduled"]
                       /\ UNCHANGED << token, lsJwt, lsExpiry >>
  /\ UNCHANGED << isLoading, error, initialized, loginCall, calls >>
  /\ FormFollows
  /\ UNCHANGED << serverVars, buildEnv, libVars >>

\* Auto-logout effect, run after a commit that changed the token: the cleanup
\* returned by the previous run clears the timer of that run, then the body
\* schedules a new one for the time left until the stored expiry.
AutoLogoutEffect ==
  /\ EffectPending
  /\ effectToken' = token
  /\ LET cleared == timers \ { cleanup } IN
     IF token = << >> \/ lsExpiry = << >>
       THEN /\ timers' = cleared
            /\ cleanup' = NoTimer
            /\ ev' = [NoEv EXCEPT !.op = "effect", !.branch = "idle"]
            /\ UNCHANGED << token, lsJwt, lsExpiry >>
       ELSE LET timeUntilExpiry == parseInt(lsExpiry) - now
                timer == [set |-> TRUE, fireAt |-> now + timeUntilExpiry,
                          tok |-> token]
            IN  IF timeUntilExpiry <= 0
                  THEN /\ token' = << >>
                       /\ lsJwt' = << >>
                       /\ lsExpiry' = << >>
                       /\ timers' = cleared
                       /\ cleanup' = NoTimer
                       /\ ev' = [NoEv EXCEPT !.op = "effect", !.branch = "expired"]
                  ELSE /\ timers' = cleared \cup { timer }
                       /\ cleanup' = timer
                       /\ ev' = [NoEv EXCEPT !.op = "effect", !.branch = "scheduled"]
                       /\ UNCHANGED << token, lsJwt, lsExpiry >>
  /\ UNCHANGED << isLoading, error, initialized, loginCall, calls >>
  /\ FormFollows
  /\ UNCHANGED << serverVars, buildEnv, libVars >>

\* A timer callback that forgets the token in memory but leaves localStorage.
TimerFires_TokenOnly(timer) ==
  /\ timer \in timers
  /\ now >= timer.fireAt
  /\ token' = << >>
  /\ timers' = timers \ { timer }
  /\ ev' = [NoEv EXCEPT !.op = "timer"]
  /\ UNCHANGED << isLoading, error, initialized, lsJwt, lsExpiry, cleanup,
                  effectToken, loginCall, calls >>
  /\ FormFollows
  /\ UNCHANGED << serverVars, buildEnv, libVars >>

\* The callback of an auto-logout timer that is due; the timer is one-shot.
TimerFires(timer) ==
  /\ timer \in timers
  /\ now >= timer.fireAt
  /\ token' = << >>
  /\ lsJwt' = << >>
  /\ lsExpiry' = << >>
  /\ timers' = timers \ { timer }
  /\ ev' = [NoEv EXCEPT !.op = "timer"]
  /\ UNCHANGED << isLoading, error, initialized, cleanup, effectToken,
                  loginCall, calls >>
  /\ FormFollows
  /\ UNCHANGED << serverVars, buildEnv, libVars >>

\* JSON.stringify of a text: its characters in a row.
RECURSIVE Join(_)
Join(text) == IF text = << >> THEN "" ELSE Head(text).w \o Join(Tail(text))

\* A login form whose controls stay enabled while a login is in progress.
LoginSubmit_NoDisable(password) ==
  /\ View = "login"
  /\ ~EffectPending
  /\ IF Trim(password) = << >>
       THEN /\ error' = ""
            /\ ev' = [NoEv EXCEPT !.op = "login-submit", !.branch = "blank"]
            /\ UNCHANGED << isLoading, loginCall >>
       ELSE /\ isLoading' = TRUE
            /\ error' = ""
            /\ loginCall' = [open |-> TRUE, password |-> Join(password),
                             sentAt |-> now]
            /\ ev' = [NoEv EXCEPT !.op = "login-submit", !.branch = "sent"]
  /\ UNCHANGED << token, initialized, lsJwt, lsExpiry, timers, cleanup,
                  effectToken, calls >>
  /\ UNCHANGED formVars
  /\ UNCHANGED << serverVars, buildEnv, libVars >>

\* Login.handleSubmit with the text of the password field, and
\* login(password) up to the fetch; the field and the button are disabled
\* while isLoading, and a text that trims to nothing returns after
\* clearError().
LoginSubmit(password) ==
  /\ View = "login"
  /\ ~EffectPending
  /\ ~isLoading
  /\ IF Trim(password) = << >>
       THEN /\ error' = ""
            /\ ev' = [NoEv EXCEPT !.op = "login-submit", !.branch = "blank"]
            /\ UNCHANGED << isLoading, loginCall >>
       ELSE /\ isLoading' = TRUE
            /\ error' = ""
            /\ loginCall' = [open |-> TRUE, password |-> Join(password),
                             sentAt |-> now]
            /\ ev' = [NoEv EXCEPT !.op = "login-submit", !.branch = "sent"]
  /\ UNCHANGED << token, initialized, lsJwt, lsExpiry, timers, cleanup,
                  effectToken, calls >>
  /\ UNCHANGED formVars
  /\ UNCHANGED << serverVars, buildEnv, libVars >>

ErrorText(reply) ==
  IF reply.code = "INVALID_PASSWORD" THEN "Invalid password"
  ELSE IF reply.code = "VALIDATION_ERROR" THEN "Invalid request body"
  ELSE "Too many login attempts. Please try again later."

\* The response the browser receives for a reply of the login route.
LoginHttp(reply) ==
  [status |-> reply.status, json |-> TRUE, ok |-> reply.status = 200,
   token |-> reply.token, expiresIn |-> reply.expiresIn,
   error |-> IF reply.status = 200 THEN "" ELSE ErrorText(reply)]

\* What the server can answer to the login in flight: the handler's reply to
\* the password, at the time the request was sent or now, or the limiter's.
LoginAnswers ==
  { LoginHttp(loginHandler([hasPassword |-> TRUE,
                            password |-> loginCall.password], t))
    : t \in { loginCall.sentAt, now } }
  \cup { LoginHttp(Reply(429, "AUTH_RATE_LIMIT_EXCEEDED")) }

\* JSON responses that do not come from the login route: 2xx with ok false
\* and no error text, ok true without a token, a token under 201, a token
\* without expiresIn, and a token under a status that is not 2xx.
ForeignAnswers ==
  LET t == << Forged(now) >>
      json == [NoResponse EXCEPT !.json = TRUE]
  IN  { [json EXCEPT !.status = 200],
        [json EXCEPT !.status = 200, !.ok = TRUE],
        [json EXCEPT !.status = 201, !.ok = TRUE, !.token = t,
                     !.expiresIn = TOKEN_EXPIRATION_SECONDS],
        [json EXCEPT !.status = 200, !.ok = TRUE, !.token = t],
        [json EXCEPT !.status = 500, !.ok = TRUE, !.token = t,
                     !.expiresIn = TOKEN_EXPIRATION_SECONDS] }

\* A login that takes the body's word and does not look at response.ok.
LoginResponse_IgnoresHttpStatus(response) ==
  /\ loginCall.open
  /\ response.json
  /\ loginCall' = NoLoginCall
  /\ isLoading' = FALSE
  /\ IF response.ok /\ response.token # << >>
       THEN LET expiresIn == IF response.expiresIn # 0 THEN response.expiresIn
                             ELSE 28800
                expiryTime == now + expiresIn * 1000
            IN  /\ token' = response.token
                /\ lsJwt' = response.token
                /\ lsExpiry' = toString(expiryTime)
                /\ ev' = [NoEv EXCEPT !.op = "login-settled", !.branch = "true",
                                      !.resp = response]
                /\ UNCHANGED error
       ELSE /\ error' = IF response.error # "" THEN response.error
                        ELSE "Login failed"
            /\ ev' = [NoEv EXCEPT !.op = "login-settled", !.branch = "false",
                                  !.resp = response]
            /\ UNCHANGED << token, lsJwt, lsExpiry >>
  /\ UNCHANGED << initialized, timers, cleanup, effectToken, calls >>
  /\ UNCHANGED formVars
  /\ UNCHANGED << serverVars, buildEnv, libVars >>

\* A login that adds expiresIn to Date.now() without the factor 1000.
LoginResponse_ExpiryInSeconds(response) ==
  /\ loginCall.open
  /\ response.json
  /\ loginCall' = NoLoginCall
  /\ isLoading' = FALSE
  /\ IF response.status \in 200..299 /\ response.ok /\ response.token # << >>
       THEN LET expiresIn == IF response.expiresIn # 0 THEN response.expiresIn
                             ELSE 28800
                expiryTime == now + expiresIn
            IN  /\ token' = response.token
                /\ lsJwt' = response.token
                /\ lsExpiry' = toString(expiryTime)
                /\ ev' = [NoEv EXCEPT !.op = "login-settled", !.branch = "true",
                                      !.resp = response]
                /\ UNCHANGED error
       ELSE /\ error' = IF response.error # "" THEN response.error
                        ELSE "Login failed"
            /\ ev' = [NoEv EXCEPT !.op = "login-settled", !.branch = "false",
                                  !.resp = response]
            /\ UNCHANGED << token, lsJwt, lsExpiry >>
  /\ UNCHANGED << initialized, timers, cleanup, effectToken, calls >>
  /\ UNCHANGED formVars
  /\ UNCHANGED << serverVars, buildEnv, libVars >>

\* login(password) after the fetch: the response arrived and its body was
\* parsed; ev.branch is the value login returns.
LoginResponse(response) ==
  /\ loginCall.open
  /\ response.json
  /\ loginCall' = NoLoginCall
  /\ isLoading' = FALSE
  /\ IF response.status \in 200..299 /\ response.ok /\ response.token # << >>
       THEN LET expiresIn == IF response.expiresIn # 0 THEN response.expiresIn
                             ELSE 28800
                expiryTime == now + expiresIn * 1000
            IN  /\ token' = response.token
                /\ lsJwt' = response.token
                /\ lsExpiry' = toString(expiryTime)
                /\ ev' = [NoEv EXCEPT !.op = "login-settled", !.branch = "true",
                                      !.resp = response]
                /\ UNCHANGED error
       ELSE /\ error' = IF response.error # "" THEN response.error
                        ELSE "Login failed"
            /\ ev' = [NoEv EXCEPT !.op = "login-settled", !.branch = "false",
                                  !.resp = response]
            /\ UNCHANGED << token, lsJwt, lsExpiry >>
  /\ UNCHANGED << initialized, timers, cleanup, effectToken, calls >>
  /\ UNCHANGED formVars
  /\ UNCHANGED << serverVars, buildEnv, libVars >>

\* login(password) when fetch rejects or the body is not JSON: the catch
\* branch, which returns false.
LoginFails ==
  /\ loginCall.open
  /\ loginCall' = NoLoginCall
  /\ isLoading' = FALSE
  /\ error' = "Network error. Please check your connection."
  /\ ev' = [NoEv EXCEPT !.op = "login-settled", !.branch = "false"]
  /\ UNCHANGED << token, initialized, lsJwt, lsExpiry, timers, cleanup,
                  effectToken, calls >>
  /\ UNCHANGED formVars
  /\ UNCHANGED << serverVars, buildEnv, libVars >>

\* A logout that removes the token entry and leaves the expiry entry.
Logout_TokenEntryOnly ==
  /\ View = "app"
  /\ ~EffectPending
  /\ token' = << >>
  /\ error' = ""
  /\ lsJwt' = << >>
  /\ ev' = [NoEv EXCEPT !.op = "logout"]
  /\ UNCHANGED << isLoading, initialized, lsExpiry, timers, cleanup,
                  effectToken, loginCall, calls >>
  /\ FormFollows
  /\ UNCHANGED << serverVars, buildEnv, libVars >>

\* A logout that forgets the token in memory and leaves localStorage alone.
Logout_MemoryOnly ==
  /\ View = "app"
  /\ ~EffectPending
  /\ token' = << >>
  /\ error' = ""
  /\ ev' = [NoEv EXCEPT !.op = "logout"]
  /\ UNCHANGED << isLoading, initialized, timers, cleanup, effectToken,
                  loginCall, calls, lsJwt, lsExpiry >>
  /\ FormFollows
  /\ UNCHANGED << serverVars, buildEnv, libVars >>

\* logout(), from the button of the application view.
Logout ==
  /\ View = "app"
  /\ ~EffectPending
  /\ token' = << >>
  /\ error' = ""
  /\ lsJwt' = << >>
  /\ lsExpiry' = << >>
  /\ ev' = [NoEv EXCEPT !.op = "logout"]
  /\ UNCHANGED << isLoading, initialized, timers, cleanup, effectToken,
                  loginCall, calls >>
  /\ FormFollows
  /\ UNCHANGED << serverVars, buildEnv, libVars >>

\* fetchLogs (AdminLogs) sends its request with the token of the current
\* render.
SendCall(kind) ==
  /\ View = "app"
  /\ ~EffectPending
  /\ Cardinality(calls) < MaxCalls
  /\ calls' = calls \cup { [kind |-> kind, tok |-> token, body |-> NoBatch] }
  /\ ev' = NoEv
  /\ UNCHANGED << authVars, loginCall >>
  /\ UNCHANGED formVars
  /\ UNCHANGED << serverVars, buildEnv, libVars >>

\* A log call whose failure is shown as a failed submission.
Response_SurfacesLogFailure(c, status) ==
  /\ c \in calls
  /\ calls' = calls \ { c }
  /\ UNCHANGED << token, error, lsJwt, lsExpiry >>
  /\ submission' = IF c.kind = "logEmailBatch" /\ status \notin 200..299
                     THEN "error" ELSE submission
  /\ ev' = [NoEv EXCEPT !.op = "response", !.status = status, !.branch = c.kind]
  /\ UNCHANGED << isLoading, initialized, timers, cleanup, effectToken,
                  loginCall, errors, webhooks >>
  /\ UNCHANGED << serverVars, buildEnv, libVars >>

\* A call whose 401/403 ends the session only when the request carried the
\* token of the current session.
Response_OwnTokenOnly(c, status) ==
  /\ c \in calls
  /\ calls' = calls \ { c }
  /\ IF handleAuthError(status) /\ c.tok = token
       THEN /\ lsJwt' = << >>
            /\ lsExpiry' = << >>
            /\ token' = << >>
            /\ error' = ""
       ELSE UNCHANGED << token, error, lsJwt, lsExpiry >>
  /\ ev' = [NoEv EXCEPT !.op = "response", !.status = status, !.branch = c.kind,
                        !.resp = [NoResponse EXCEPT !.status = status,
                                                    !.token = c.tok]]
  /\ UNCHANGED << isLoading, initialized, timers, cleanup, effectToken,
                  loginCall >>
  /\ FormFollows
  /\ UNCHANGED << serverVars, buildEnv, libVars >>

\* The protected call c settles with the given status: on 401/403
\* handleAuthError removes the stored entries and logout() is called.
\* ev.resp.token is the token the request was sent with.
Response(c, status) ==
  /\ c \in calls
  /\ calls' = calls \ { c }
  /\ IF handleAuthError(status)
       THEN /\ lsJwt' = << >>
            /\ lsExpiry' = << >>
            /\ token' = << >>
            /\ error' = ""
       ELSE UNCHANGED << token, error, lsJwt, lsExpiry >>
  /\ ev' = [NoEv EXCEPT !.op = "response", !.status = status, !.branch = c.kind,
                        !.resp = [NoResponse EXCEPT !.status = status,
                                                    !.token = c.tok]]
  /\ UNCHANGED << isLoading, initialized, timers, cleanup, effectToken,
                  loginCall >>
  /\ FormFollows
  /\ UNCHANGED << serverVars, buildEnv, libVars >>

\* What a user leaves in the fields of the form before pressing the button.
FormInputs ==
  [holidayName : { << >>, << SP >>, << Word("Christmas"), SP >> },
   tone        : { << >> },
   audienceType : { "business" },
   language    : { "en" },
   senderName  : { << >>, << Word("Jane") >> },
   recipients  : { << >>, << SP, NL >>, << COMMA >>, << Word("bogus") >>,
                   EmailAB, EmailAB \o << COMMA, SP, Word("bogus") >>,
                   EmailAB \o << NL >> \o EmailCD }]

\* What the webhook fetch settles with; 0: fetch rejected.
WebhookStatuses == {0, 200, 204, 400, 500}

\* config.ts: VITE_N8N_SECRET || "".
N8N_SECRET == IF Missing(buildEnv) THEN "" ELSE buildEnv.value

\* The payload built for the webhook.
WebhookPayload(fields) ==
  [holiday_name  |-> Trim(fields.holidayName),
   tone          |-> IF Trim(fields.tone) # << >> THEN Trim(fields.tone)
                     ELSE << Word("warm") >>,
   sender_name   |-> Trim(fields.senderName),
   audience_type |-> fields.audienceType,
   language      |-> fields.language,
   recipients    |-> fields.recipients]

\* Headers that carry X-N8N-SECRET whatever the configuration.
webhookHeaders_Always(secret) ==
  [contentType |-> "application/json", xN8nSecret |-> << Word(secret) >>]

\* The headers of the webhook fetch: X-N8N-SECRET only if (N8N_SECRET).
webhookHeaders(secret) ==
  [contentType |-> "application/json",
   xN8nSecret  |-> IF secret # "" THEN << Word(secret) >> ELSE NoHeader]

\* A form whose button and inputs stay enabled while a submission is in
\* flight.
HandleSubmit_NotDisabled(fields) ==
  LET validation == validateForm(fields) IN
  /\ View = "app"
  /\ ~EffectPending
  /\ IF ~validation.valid
       THEN /\ errors' = validation.errors
            /\ ev' = [NoEv EXCEPT !.op = "submit", !.branch = "invalid"]
            /\ UNCHANGED << submission, webhooks >>
       ELSE /\ Cardinality(webhooks) < MaxWebhooks
            /\ errors' = NoErrors
            /\ submission' = "submitting"
            /\ webhooks' = webhooks \cup
                 { [tok |-> token, orphan |-> FALSE, fields |-> fields,
                    payload |-> WebhookPayload(fields),
                    headers |-> webhookHeaders(N8N_SECRET),
                    batch |-> [NoBatch EXCEPT
                                 !.holidayName = Trim(fields.holidayName),
                                 !.senderName = Trim(fields.senderName),
                                 !.recipients = extractEmails(fields.recipients)]] }
            /\ ev' = [NoEv EXCEPT !.op = "submit", !.branch = "valid"]
  /\ UNCHANGED << authVars, loginCall, calls >>
  /\ UNCHANGED << serverVars, buildEnv, libVars >>

\* Form.handleSubmit up to the webhook fetch: invalid fields only set the
\* messages; valid fields clear them, enter 'submitting' and send the webhook.
HandleSubmit(fields) ==
  LET validation == validateForm(fields) IN
  /\ View = "app"
  /\ ~EffectPending
  /\ submission # "submitting"
  /\ IF ~validation.valid
       THEN /\ errors' = validation.errors
            /\ ev' = [NoEv EXCEPT !.op = "submit", !.branch = "invalid"]
            /\ UNCHANGED << submission, webhooks >>
       ELSE /\ Cardinality(webhooks) < MaxWebhooks
            /\ errors' = NoErrors
            /\ submission' = "submitting"
            /\ webhooks' = webhooks \cup
                 { [tok |-> token, orphan |-> FALSE, fields |-> fields,
                    payload |-> WebhookPayload(fields),
                    headers |-> webhookHeaders(N8N_SECRET),
                    batch |-> [NoBatch EXCEPT
                                 !.holidayName = Trim(fields.holidayName),
                                 !.senderName = Trim(fields.senderName),
                                 !.recipients = extractEmails(fields.recipients)]] }
            /\ ev' = [NoEv EXCEPT !.op = "submit", !.branch = "valid"]
  /\ UNCHANGED << authVars, loginCall, calls >>
  /\ UNCHANGED << serverVars, buildEnv, libVars >>

\* A handleSubmit that logs successful sends only.
LogCallsAfter_OnlyOnSuccess(w, status) ==
  IF status \in 200..299
    THEN << [kind |-> "logEmailBatch", tok |-> w.tok,
             body |-> [w.batch EXCEPT !.status = "sent"]] >>
    ELSE << >>

\* The log requests handleSubmit issues once the webhook fetch w has settled:
\* one call of logEmailBatch in the branch taken (ok, HTTP error, rejected).
LogCallsAfter(w, status) ==
  LET ok == status \in 200..299
      payload ==
        [w.batch EXCEPT
           !.status = IF ok THEN "sent" ELSE "error",
           !.errorMessage =
             IF ok THEN ""
             ELSE IF status = 0
               THEN "Network error: Unable to reach automation server"
             ELSE "HTTP error"]
  IN  << [kind |-> "logEmailBatch", tok |-> w.tok, body |-> payload] >>

\* Form.handleSubmit after the webhook fetch: the log request is sent and not
\* awaited, then the submission state is set (a Form that was unmounted in
\* the meantime has no state to set).
WebhookResponse(w, status) ==
  LET logs == LogCallsAfter(w, status) IN
  /\ w \in webhooks
  /\ Cardinality(calls) + Len(logs) <= MaxCalls
  /\ webhooks' = webhooks \ { w }
  /\ calls' = calls \cup { logs[i] : i \in 1..Len(logs) }
  /\ submission' = IF w.orphan THEN submission
                   ELSE IF status \in 200..299 THEN "success" ELSE "error"
  /\ ev' = [NoEv EXCEPT !.op = "webhook", !.status = status,
                        !.branch = IF w.orphan THEN "orphan" ELSE "mounted",
                        !.sent = Len(logs)]
  /\ UNCHANGED << authVars, loginCall, errors >>
  /\ UNCHANGED << serverVars, buildEnv, libVars >>

\* dismissAlert, from the banner of the form.
DismissAlert ==
  /\ View = "app"
  /\ ~EffectPending
  /\ submission \in {"success", "error"}
  /\ submission' = "idle"
  /\ ev' = NoEv
  /\ UNCHANGED << authVars, loginCall, calls, errors, webhooks >>
  /\ UNCHANGED << serverVars, buildEnv, libVars >>

\* The page is reloaded: the state in memory, the timer and the fetches in
\* flight are gone, localStorage stays.
Reload ==
  /\ initialized
  /\ token' = << >>
  /\ isLoading' = FALSE
  /\ error' = ""
  /\ initialized' = FALSE
  /\ timers' = {}
  /\ cleanup' = NoTimer
  /\ effectToken' = << >>
  /\ loginCall' = NoLoginCall
  /\ calls' = {}
  /\ ev' = NoEv
  /\ UNCHANGED << lsJwt, lsExpiry >>
  /\ submission' = "idle"
  /\ errors' = NoErrors
  /\ webhooks' = {}
  /\ UNCHANGED << serverVars, buildEnv, libVars >>

\* The browser's clock advances.
ClientTick ==
  /\ \E t \in ClientTimes : t > now /\ now' = t
  /\ ev' = NoEv
  /\ UNCHANGED << maxReqEnv, authHits, apiHits, issued, batches, last, bootVars,
                  limiterVars >>
  /\ UNCHANGED << authVars, loginCall, calls, formVars, buildEnv, libVars >>

NextClient ==
  \/ Mount
  \/ AutoLogoutEffect
  \/ \E timer \in timers : TimerFires(timer)
  \/ \E pw \in TypedPasswords : LoginSubmit(pw)
  \/ \E response \in LoginAnswers \cup ForeignAnswers : LoginResponse(response)
  \/ LoginFails
  \/ Logout
  \/ SendCall("fetchLogs")
  \/ \E c \in calls, status \in Statuses : Response(c, status)
  \/ Reload
  \/ ClientTick

ClientSpec == ApiInit /\ [][NextClient]_vars

\* The form of the application view, under a clock that stands still.
NextForm ==
  \/ Mount
  \/ AutoLogoutEffect
  \/ LoginSubmit(<< Word(ACCESS_PASSWORD) >>)
  \/ \E response \in LoginAnswers : LoginResponse(response)
  \/ Logout
  \/ \E fields \in FormInputs : HandleSubmit(fields)
  \/ \E w \in webhooks, status \in WebhookStatuses : WebhookResponse(w, status)
  \/ \E c \in calls, status \in Statuses : Response(c, status)
  \/ DismissAlert

FormSpec == ApiInit /\ [][NextForm]_vars

\* What a user leaves in the fields of the form, every field in turn blank,
\* padded or filled.
WebhookInputs ==
  [holidayName : { << SP >>, << SP, Word("Christmas"), SP >> },
   tone        : { << >>, << SP >>, << SP, Word("formal") >> },
   audienceType : { "business", "personal" },
   language    : { "en", "hi" },
   senderName  : { << Word("Jane"), SP >> },
   recipients  : { << Word("bogus") >>, EmailAB,
                   << SP >> \o EmailAB \o << COMMA, NL, SP >> \o EmailCD
                     \o << NL >> }]

\* The webhook call of the form, under every build of the client.
NextWebhook ==
  \/ Mount
  \/ AutoLogoutEffect
  \/ LoginSubmit(<< Word(ACCESS_PASSWORD) >>)
  \/ \E response \in LoginAnswers : LoginResponse(response)
  \/ \E fields \in WebhookInputs : HandleSubmit(fields)
  \/ \E w \in webhooks, status \in WebhookStatuses : WebhookResponse(w, status)
  \/ \E c \in calls : Response(c, 201)

WebhookInit ==
  InitWith(EnvChoices(GoodBuild.value), { NoFields }) /\ maxReqEnv = EnvMaxReq

WebhookSpec == WebhookInit /\ [][NextWebhook]_vars

\* extractEmails is called with the recipients text.
ExtractEmails ==
  /\ ~output.extracted
  /\ output' = [output EXCEPT !.extracted = TRUE,
                              !.emails = extractEmails(input.recipients)]
  /\ UNCHANGED << serverVars, authVars, loginCall, calls, ev, formVars,
                  buildEnv, input >>

\* validateForm is called with the fields.
ValidateForm ==
  /\ ~output.validated
  /\ output' = [output EXCEPT !.validated = TRUE,
                              !.validation = validateForm(input)]
  /\ UNCHANGED << serverVars, authVars, loginCall, calls, ev, formVars,
                  buildEnv, input >>

\* The functions of lib/validation.ts, called with every input.
NextLib ==
  \/ ExtractEmails
  \/ ValidateForm

LibInit == InitWith({ GoodBuild }, LibInputs) /\ maxReqEnv = 0

LibSpec == LibInit /\ [][NextLib]_vars

\* The instants at which client and server are observed together: around
\* the issue and the expiry of a token.
SessionTimes ==
  LET ttl == TOKEN_EXPIRATION_SECONDS * 1000
  IN  {0, 500, ttl - 500, ttl, ttl + 500}

\* Requests to /api that pass the limiter's key and the API-key gate and
\* present a token: one that login issued, an altered one, one signed with
\* another secret, or text that is no token.
SessionRequests ==
  { [NoReq EXCEPT !.src = Direct, !.route = "GET /email-logs",
                  !.apiKey = << Word(API_KEY_FRONTEND) >>,
                  !.auth = << Word("Bearer"), SP, t >>]
    : t \in PresentableTokens }

\* The web client and the server together: the client logs in through the
\* login route, holds the token, logs out or is logged out by its timer, and
\* tokens are presented to /api by whoever has them.
NextSession ==
  \/ Tick(SessionTimes)
  \/ Mount
  \/ AutoLogoutEffect
  \/ \E timer \in timers : TimerFires(timer)
  \/ LoginSubmit(<< Word(ACCESS_PASSWORD) >>)
  \/ /\ loginCall.open
     /\ Login([GoodLogin EXCEPT !.body.password = loginCall.password])
     /\ authHits'[keyGenerator(Direct)].totalHits <= MaxLogins
  \/ last.kind = "login" /\ LoginResponse(LoginHttp(last.reply))
  \/ Logout
  \/ \E req \in SessionRequests : Api(req)
  \/ EndTurn

SessionSpec == ApiInit /\ [][NextSession]_vars

\* getAuthHeaders(token) on the request of the protected call c: the
\* Authorization header when there is a token, and the API key of the build.
RequestOf(c) ==
  [NoReq EXCEPT !.src = Direct,
                !.route = IF c.kind = "logEmailBatch"
                            THEN "POST /log-email-batch" ELSE "GET /email-logs",
                !.auth = IF c.tok # << >>
                           THEN << Word("Bearer"), SP >> \o c.tok ELSE NoHeader,
                !.apiKey = << Word(API_KEY_FRONTEND) >>,
                !.log = c.body]

\* Forms with both names filled in and every recipients text.
SubmitInputs ==
  { f \in FormInputs : f.holidayName = << Word("Christmas"), SP >>
                       /\ f.senderName = << Word("Jane") >> }

\* The form and the server together: the client logs in through the login
\* route, submits the form, the webhook settles, and the log call is served
\* by /api, whose response the client receives before the turn ends.
NextSubmit ==
  \/ Mount
  \/ AutoLogoutEffect
  \/ LoginSubmit(<< Word(ACCESS_PASSWORD) >>)
  \/ /\ loginCall.open
     /\ Login([GoodLogin EXCEPT !.body.password = loginCall.password])
     /\ authHits'[keyGenerator(Direct)].totalHits <= MaxLogins
  \/ last.kind = "login" /\ LoginResponse(LoginHttp(last.reply))
  \/ \E fields \in SubmitInputs : HandleSubmit(fields)
  \/ \E w \in webhooks, status \in WebhookStatuses : WebhookResponse(w, status)
  \/ \E c \in calls : Api(RequestOf(c))
  \/ \E c \in calls :
       /\ last.kind = "api" /\ last.req = RequestOf(c)
       /\ Response(c, last.reply.status)
  \/ DismissAlert
  \/ /\ last.kind = "login" => ~loginCall.open
     /\ last.kind = "api" => \A c \in calls : RequestOf(c) # last.req
     /\ EndTurn

SubmitSpec == LogInit /\ [][NextSubmit]_vars

\* The browser keeps its promises: the clock advances, React runs the effects
\* it has scheduled, and a timer that is due runs its callback.
ClientLiveSpec ==
  /\ ClientSpec
  /\ WF_vars(ClientTick)
  /\ WF_vars(Mount)
  /\ WF_vars(AutoLogoutEffect)
  /\ WF_vars(\E timer \in timers : TimerFires(timer))

\* The form with both names filled in and every recipients text.
NextFormLive ==
  \/ Mount
  \/ AutoLogoutEffect
  \/ LoginSubmit(<< Word(ACCESS_PASSWORD) >>)
  \/ \E response \in LoginAnswers : LoginResponse(response)
  \/ Logout
  \/ \E fields \in SubmitInputs : HandleSubmit(fields)
  \/ \E w \in webhooks, status \in WebhookStatuses : WebhookResponse(w, status)
  \/ \E c \in calls, status \in Statuses : Response(c, status)
  \/ DismissAlert

\* The fetches of the form settle: the webhook call gets a response or
\* fails, and so does the log call that follows it.
FormLiveSpec ==
  /\ ApiInit
  /\ [][NextFormLive]_vars
  /\ WF_vars(\E w \in webhooks, status \in WebhookStatuses :
               WebhookResponse(w, status))
  /\ WF_vars(\E c \in calls, status \in Statuses : Response(c, status))

\* ------------------------------------------------------------------------
\* Properties
\* ------------------------------------------------------------------------

\* The request of this turn got past apiRateLimiter.
ApiAdmitted == last.kind = "api" /\ last.hits <= MAX_REQUESTS

\* The request of this turn got past apiRateLimiter and requireApiKey.
ReachedAuth == ApiAdmitted /\ last.req.apiKey = << Word(API_KEY_FRONTEND) >>

\* The Authorization header is "Bearer <token>": two parts, the first Bearer.
TwoPartsBearer(h) ==
  Len(h) = 3 /\ h[1] = Word("Bearer") /\ h[2] = SP /\ h[3] # SP

\* The header carries a token that login issued and that has not expired.
CarriesLiveToken(h) ==
  \E t \in issued : h = << Word("Bearer"), SP, t >> /\ now < t.p.exp * 1000

\* C1: a protected handler runs, and persistence is called, only for a
\* request that the general limiter admitted, that carried the configured
\* API key and that carried a Bearer token which verifies.
C1_GuardsBeforeHandler ==
  (last.kind = "api" /\ (last.reply.handlerRan \/ last.reply.dbCalls > 0)) =>
     /\ ApiAdmitted
     /\ last.req.apiKey = << Word(API_KEY_FRONTEND) >>
     /\ CarriesLiveToken(last.req.auth)

C1_Witness ==
  /\ last.kind = "api"
  /\ last.reply.handlerRan
  /\ last.reply.dbCalls > 0
  /\ last.reply.status = 201

\* C2 as stated: every password other than the configured one gets
\* INVALID_PASSWORD and no token.
C2_Original ==
  (last.kind = "login" /\ last.req.body.hasPassword
     /\ last.req.body.password # ACCESS_PASSWORD) =>
     /\ last.reply.code = "INVALID_PASSWORD"
     /\ last.reply.token = << >>

\* C2 (amended): a password other than the configured one never gets a token
\* or a 200; it gets 401 INVALID_PASSWORD when it is non-empty and the login
\* limiter admitted the request, 400 VALIDATION_ERROR when it is empty and
\* admitted, and 429 AUTH_RATE_LIMIT_EXCEEDED when the limiter rejected.
C2_WrongPassword ==
  (last.kind = "login" /\ last.req.body.hasPassword
     /\ last.req.body.password # ACCESS_PASSWORD) =>
     /\ last.reply.token = << >>
     /\ last.reply.status # 200
     /\ last.reply.code =
          IF last.hits > 5 THEN "AUTH_RATE_LIMIT_EXCEEDED"
          ELSE IF last.req.body.password = "" THEN "VALIDATION_ERROR"
          ELSE "INVALID_PASSWORD"
     /\ (last.reply.code = "INVALID_PASSWORD" => last.reply.status = 401)

C2_Witness ==
  /\ last.kind = "login"
  /\ last.req.body.password = "letmein"
  /\ last.reply.code = "INVALID_PASSWORD"
  /\ issued = {}

\* C3: the correct password on an admitted request gets 200 with a token and
\* expiresIn = 28800, and that token, presented to the token middleware in
\* the second it was issued, is accepted with sub = "admin", role = "admin".
C3_LoginThenVerify ==
  /\ (last.kind = "login" /\ last.req.body.hasPassword
        /\ last.req.body.password = ACCESS_PASSWORD /\ last.hits <= 5) =>
       /\ last.reply.status = 200
       /\ Len(last.reply.token) = 1
       /\ last.reply.token[1] \in issued
       /\ last.reply.expiresIn = 28800
  /\ \A t \in issued :
       (ReachedAuth /\ last.req.auth = << Word("Bearer"), SP, t >>
          /\ t.p.iat = now \div 1000) =>
         /\ last.reply.handlerRan
         /\ last.reply.user.sub = "admin"
         /\ last.reply.user.role = "admin"

C3_Witness ==
  /\ ReachedAuth
  /\ \E t \in issued :
       /\ last.req.auth = << Word("Bearer"), SP, t >>
       /\ t.p.iat = now \div 1000
  /\ last.reply.user.sub = "admin"

\* C4: a token issued by login is rejected by the token middleware with 401
\* TOKEN_EXPIRED (and the handler does not run) when presented at or after
\* its expires-at, and is accepted when presented before.
C4_Expiry ==
  \A t \in issued :
    (ReachedAuth /\ last.req.auth = << Word("Bearer"), SP, t >>) =>
      IF now >= t.p.exp * 1000
        THEN /\ last.reply.status = 401
             /\ last.reply.code = "TOKEN_EXPIRED"
             /\ ~last.reply.handlerRan
             /\ last.reply.dbCalls = 0
        ELSE /\ last.reply.handlerRan
             /\ last.reply.user = t.p

C4_Witness ==
  /\ ReachedAuth
  /\ last.reply.code = "TOKEN_EXPIRED"
  /\ \E t \in issued :
       /\ last.req.auth = << Word("Bearer"), SP, t >>
       /\ now = t.p.exp * 1000

\* C5: a Bearer header whose token is not one that login issued (tampered,
\* forged under another secret, or not a token at all) is rejected with 401
\* INVALID_TOKEN and the handler does not run.
C5_InvalidToken ==
  (ReachedAuth /\ TwoPartsBearer(last.req.auth)
     /\ last.req.auth[3] \notin issued) =>
     /\ last.reply.status = 401
     /\ last.reply.code = "INVALID_TOKEN"
     /\ ~last.reply.handlerRan
     /\ last.reply.dbCalls = 0

C5_Witness ==
  /\ ReachedAuth
  /\ last.reply.code = "INVALID_TOKEN"
  /\ \E t \in issued :
       /\ last.req.auth = << Word("Bearer"), SP, Tamper(t) >>
       /\ now >= t.p.exp * 1000

\* C6: within one login window the first 5 attempts of a source are admitted
\* to the credential check and a 6th is rejected with 429
\* AUTH_RATE_LIMIT_EXCEEDED; once the window has elapsed the next attempt of
\* that source is admitted again.
C6_LoginWindow ==
  [][ last'.kind = "login" =>
        LET bucket == authHits[keyGenerator(last'.req.src)]
            admitted == /\ last'.reply.status \in {200, 400, 401}
                        /\ last'.reply.code # "AUTH_RATE_LIMIT_EXCEEDED"
            rejected == /\ last'.reply.status = 429
                        /\ last'.reply.code = "AUTH_RATE_LIMIT_EXCEEDED"
        IN  IF now >= bucket.resetTime THEN admitted
            ELSE IF bucket.totalHits < 5 THEN admitted
            ELSE rejected ]_vars

C6_Witness ==
  /\ last.kind = "login"
  /\ last.hits = 6
  /\ last.reply.status = 429
  /\ last.reply.code = "AUTH_RATE_LIMIT_EXCEEDED"

TokenCodes ==
  {"MISSING_AUTH_HEADER", "INVALID_AUTH_FORMAT", "TOKEN_EXPIRED", "INVALID_TOKEN"}

\* The token middleware did not act on the request of this turn.
AuthNotCalled ==
  /\ ~last.reply.verifyCalled
  /\ ~last.reply.handlerRan
  /\ last.reply.code \notin TokenCodes

\* C7 as stated: no Authorization header gives MISSING_AUTH_HEADER, and every
\* Authorization header that is not "Bearer <token>" gives
\* INVALID_AUTH_FORMAT without a verification attempt.
C7_Original ==
  ReachedAuth =>
    /\ (last.req.auth = NoHeader => last.reply.code = "MISSING_AUTH_HEADER")
    /\ (last.req.auth # NoHeader /\ ~TwoPartsBearer(last.req.auth)) =>
         /\ last.reply.code = "INVALID_AUTH_FORMAT"
         /\ ~last.reply.verifyCalled

\* C7 (amended): no Authorization header, or an empty one, gives 401
\* MISSING_AUTH_HEADER; every non-empty Authorization header that is not
\* exactly two space-separated parts with the first literally Bearer gives
\* 401 INVALID_AUTH_FORMAT; neither attempts token verification.
C7_AuthFormat ==
  ReachedAuth =>
    /\ (last.req.auth \in {NoHeader, << >>}) =>
         /\ last.reply.status = 401
         /\ last.reply.code = "MISSING_AUTH_HEADER"
         /\ ~last.reply.verifyCalled
         /\ ~last.reply.handlerRan
    /\ (last.req.auth \notin {NoHeader, << >>} /\ ~TwoPartsBearer(last.req.auth)) =>
         /\ last.reply.status = 401
         /\ last.reply.code = "INVALID_AUTH_FORMAT"
         /\ ~last.reply.verifyCalled
         /\ ~last.reply.handlerRan

C7_Witness ==
  /\ ReachedAuth
  /\ last.reply.code = "INVALID_AUTH_FORMAT"
  /\ \E t \in issued :
       /\ last.req.auth = << Word("Bearer"), SP, t, SP, Word("x") >>
       /\ now < t.p.exp * 1000

\* C8 as stated: the gate passes only the configured key; a missing
\* X-API-Key gives 401 MISSING_API_KEY and a present but different one gives
\* 401 INVALID_API_KEY, and then the next middleware is not called.
C8_Original ==
  ApiAdmitted =>
    /\ (last.req.apiKey = NoHeader) =>
         (last.reply.status = 401 /\ last.reply.code = "MISSING_API_KEY")
    /\ (last.req.apiKey \notin {NoHeader, << Word(API_KEY_FRONTEND) >>}) =>
         (last.reply.status = 401 /\ last.reply.code = "INVALID_API_KEY")
    /\ (last.req.apiKey # << Word(API_KEY_FRONTEND) >>) => AuthNotCalled

\* C8 (amended): the gate passes only the configured key; a missing or empty
\* X-API-Key gives 401 MISSING_API_KEY and a non-empty different one gives
\* 401 INVALID_API_KEY, and then the next middleware is not called.
C8_ApiKeyGate ==
  ApiAdmitted =>
    /\ (last.req.apiKey \in {NoHeader, << >>}) =>
         (last.reply.status = 401 /\ last.reply.code = "MISSING_API_KEY")
    /\ (last.req.apiKey \notin {NoHeader, << >>, << Word(API_KEY_FRONTEND) >>}) =>
         (last.reply.status = 401 /\ last.reply.code = "INVALID_API_KEY")
    /\ (last.req.apiKey # << Word(API_KEY_FRONTEND) >>) => AuthNotCalled
    /\ (last.reply.code \notin {"MISSING_API_KEY", "INVALID_API_KEY"}) =>
         last.req.apiKey = << Word(API_KEY_FRONTEND) >>

C8_Witness ==
  /\ ApiAdmitted
  /\ last.req.apiKey = << Word("other-key") >>
  /\ CarriesLiveToken(last.req.auth)
  /\ last.reply.code = "INVALID_API_KEY"

\* C9: at app start, when both entries are stored and the stored expiry is
\* at or before the current time, both are removed and the client shows the
\* login view without any API call; when the stored expiry is in the future
\* the session is restored in memory; nothing is rendered, and no call is
\* made, before this check has run.
C9_StartupCheck ==
  /\ [](~initialized => (View = "nothing" /\ calls = {} /\ ~loginCall.open))
  /\ [][ (~initialized /\ initialized') =>
           LET both == lsJwt # << >> /\ lsExpiry # << >>
               storedExpiry == parseInt(lsExpiry)
           IN  /\ calls' = {}
               /\ ~loginCall'.open
               /\ (both /\ storedExpiry <= now) =>
                    /\ lsJwt' = << >>
                    /\ lsExpiry' = << >>
                    /\ token' = << >>
                    /\ View' = "login"
               /\ (both /\ storedExpiry > now) =>
                    /\ token' = lsJwt
                    /\ lsJwt' = lsJwt
                    /\ lsExpiry' = lsExpiry
                    /\ View' = "app" ]_vars

C9_Witness ==
  /\ ev.op = "mount"
  /\ ev.branch = "expired"
  /\ View = "login"
  /\ lsJwt = << >>
  /\ lsExpiry = << >>
  /\ calls = {}

\* C10: a protected call that comes back with 401 or 403 removes both stored
\* entries, sets the token in memory to null and leads to the login view; a
\* call that settles in any other way leaves the token and both stored
\* entries as they were.
C10_AuthErrorClears ==
  [][ ev'.op = "response" =>
        IF ev'.status \in {401, 403}
          THEN /\ token' = << >>
               /\ lsJwt' = << >>
               /\ lsExpiry' = << >>
               /\ View' = "login"
          ELSE UNCHANGED << token, lsJwt, lsExpiry >> ]_vars

C10_Witness ==
  /\ ev.op = "response"
  /\ ev.status = 403
  /\ effectToken # << >>
  /\ token = << >>
  /\ lsJwt = << >>
  /\ lsExpiry = << >>
  /\ View = "login"

\* The last instant the browser's clock is observed at.
LastClientTime == TOKEN_EXPIRATION_SECONDS * 1000 + 500

\* The session in memory and in localStorage is gone.
SessionGone == token = << >> /\ lsJwt = << >> /\ lsExpiry = << >>

\* C11: once the auto-logout effect has run for a token, one timer is
\* scheduled for exactly (stored expiry - now); when a timer fires the token
\* in memory is null and both stored entries are removed without any request
\* being sent; and every authenticated state is eventually followed by one
\* where the session is gone.
C11_AutoLogout ==
  /\ [][ (ev'.op = "effect" /\ ev'.branch = "scheduled") =>
           /\ cleanup'.set
           /\ cleanup' \in timers'
           /\ cleanup'.fireAt - now = parseInt(lsExpiry) - now
           /\ cleanup'.fireAt > now ]_vars
  /\ []((token # << >> /\ ~EffectPending) =>
          \E timer \in timers : timer.fireAt = parseInt(lsExpiry))
  /\ [][ ev'.op = "timer" =>
           /\ SessionGone'
           /\ UNCHANGED << calls, loginCall, serverVars >> ]_vars
  /\ (token # << >> /\ parseInt(lsExpiry) <= LastClientTime) ~> SessionGone

C11_Witness ==
  /\ ev.op = "timer"
  /\ effectToken # << >>
  /\ now >= TOKEN_EXPIRATION_SECONDS * 1000
  /\ SessionGone

\* C12 as stated: at most one timer is live, one is live exactly when the
\* token in memory is set, and a timer only fires for the session it was
\* scheduled for.
C12_Original ==
  /\ [](Cardinality(timers) <= 1)
  /\ [](timers # {} <=> token # << >>)
  /\ [][ \A timer \in timers \ timers' : token = timer.tok ]_vars

\* C12 (amended): at most one timer is live in every state; in every state
\* where the auto-logout effect has run for the current token value, one is
\* live exactly when the token is set, and it is the one scheduled for that
\* token; a timer that fires finds either its own token in memory or none.
C12_OneTimer ==
  /\ [](Cardinality(timers) <= 1)
  /\ [](~EffectPending =>
          /\ timers # {} <=> token # << >>
          /\ \A timer \in timers : timer.tok = token /\ timer = cleanup)
  /\ [][ \A timer \in timers \ timers' :
           token = timer.tok \/ token = << >> ]_vars

C12_Witness ==
  /\ ~EffectPending
  /\ token # << >>
  /\ Cardinality(timers) = 1
  /\ token[1].p.iat > 0
  /\ \A timer \in timers : timer.tok = token /\ timer.fireAt > LastClientTime

\* C13: the token entry is stored exactly when the expiry entry is stored,
\* and every step that removes one of them removes the other as well.
C13_StoredTogether ==
  /\ []((lsJwt = << >>) <=> (lsExpiry = << >>))
  /\ [][ (lsJwt' = << >> /\ lsJwt # << >>) <=>
         (lsExpiry' = << >> /\ lsExpiry # << >>) ]_vars

C13_Witness ==
  /\ ev.op = "logout"
  /\ effectToken # << >>
  /\ lsJwt = << >>
  /\ lsExpiry = << >>

\* C14: once the webhook has answered 2xx and the success banner is shown,
\* the banner stays shown when the log call of that submission settles,
\* whatever it settles with.
C14_BannerStays ==
  [][ \A c \in calls \ calls' :
        (ev'.op = "response" /\ c.kind = "logEmailBatch"
           /\ c.body.status = "sent" /\ c.tok = token
           /\ View = "app" /\ submission = "success") =>
          (View' = "app" /\ submission' = "success") ]_vars

\* C15: when the webhook fetch settles the submission state moves to success
\* or error while the log call is still in flight; when a log call settles,
\* the submission state does not become error, no error message appears, and
\* no request is sent again.
C15_BestEffort ==
  /\ [][ (ev'.op = "webhook" /\ ev'.branch = "mounted") =>
           /\ submission = "submitting"
           /\ submission' = IF ev'.status \in 200..299 THEN "success" ELSE "error"
           /\ \E c \in calls' : c.kind = "logEmailBatch" ]_vars
  /\ [][ (ev'.op = "response" /\ ev'.branch = "logEmailBatch") =>
           /\ submission' = "error" => submission = "error"
           /\ error' \in { "", error }
           /\ errors' \in { NoErrors, errors }
           /\ calls' \subseteq calls
           /\ calls' # calls
           /\ { w.batch : w \in webhooks' } \subseteq { w.batch : w \in webhooks } ]_vars

C15_Witness ==
  /\ ev.op = "response"
  /\ ev.branch = "logEmailBatch"
  /\ ev.status = 500
  /\ View = "app"
  /\ submission = "success"
  /\ calls = {}
  /\ webhooks = {}

\* C16: every webhook fetch that settles, with 2xx, with another status or
\* by rejection, issues exactly one log request, with status "sent" exactly
\* for 2xx and otherwise status "error" and an error message; a submission
\* whose fields fail validation sends neither a webhook nor a log request
\* and leaves the submission state as it was; a valid one sends one webhook;
\* no other step issues a log request.
C16_OneLogPerSubmission ==
  /\ [][ ev'.op = "webhook" =>
           LET ok == ev'.status \in 200..299 IN
           /\ ev'.sent = 1
           /\ calls \subseteq calls'
           /\ Cardinality(calls') <= Cardinality(calls) + 1
           /\ \E c \in calls' :
                /\ c.kind = "logEmailBatch"
                /\ c.body.status = IF ok THEN "sent" ELSE "error"
                /\ (c.body.errorMessage # "") <=> ~ok
                /\ \E w \in webhooks \ webhooks' :
                     /\ c.body.recipients = w.batch.recipients
                     /\ c.tok = w.tok ]_vars
  /\ [][ (ev'.op = "submit" /\ ev'.branch = "invalid") =>
           UNCHANGED << webhooks, calls, submission >> ]_vars
  /\ [][ (ev'.op = "submit" /\ ev'.branch = "valid") =>
           /\ Cardinality(webhooks' \ webhooks) = 1
           /\ calls' = calls ]_vars
  /\ [][ (\E c \in calls' \ calls : c.kind = "logEmailBatch") =>
           ev'.op = "webhook" ]_vars

C16_Witness ==
  /\ ev.op = "webhook"
  /\ ev.status = 0
  /\ ev.sent = 1
  /\ submission = "error"
  /\ \E c \in calls :
       /\ c.body.status = "error"
       /\ c.body.errorMessage = "Network error: Unable to reach automation server"
       /\ Len(c.body.recipients) = 2

\* The addresses among the recipients of the requests that are email
\* addresses.
ValidAddresses == { EmailAB, EmailCD }

\* The body lacks a holiday or sender name, has no recipient, has a
\* recipient that is not an email address, or has an unknown status.
FailsLogValidation(b) ==
  \/ b.holidayName \in { Absent, << >> }
  \/ b.senderName \in { Absent, << >> }
  \/ b.recipients \in { AbsentList, << >> }
  \/ \E i \in 1..Len(b.recipients) : b.recipients[i] \notin ValidAddresses
  \/ b.status \notin { "", "queued", "sent", "error" }

\* C17: POST /api/log-email-batch answers a body that fails validation with
\* 400 without calling persistence and without creating a row; a valid body,
\* when the create call returns, adds exactly one batch holding all its
\* recipients and answers 201 with recipientCount = the number of recipients
\* (at least 1); when the create call throws, nothing is added.
C17_ValidationBeforePersistence ==
  /\ []((last.kind = "api" /\ last.req.route = "POST /log-email-batch"
            /\ last.reply.handlerRan) =>
          LET b == last.req.log IN
          IF FailsLogValidation(b)
            THEN /\ last.reply.status = 400
                 /\ last.reply.dbCalls = 0
                 /\ last.reply.created = << >>
            ELSE IF last.req.dbUp
              THEN /\ last.reply.status = 201
                   /\ last.reply.dbCalls = 1
                   /\ Len(last.reply.created) = 1
                   /\ last.reply.created[1].recipients = b.recipients
                   /\ last.reply.recipientCount = Len(b.recipients)
                   /\ last.reply.recipientCount >= 1
                   /\ batches[Len(batches)] = last.reply.created[1]
              ELSE /\ last.reply.status = 500
                   /\ last.reply.created = << >>)
  /\ [][ last'.kind = "api" =>
           /\ Len(batches') = Len(batches) + Len(last'.reply.created)
           /\ last'.reply.status # 201 => batches' = batches ]_vars

C17_Witness ==
  /\ last.kind = "api"
  /\ last.req.route = "POST /log-email-batch"
  /\ last.reply.handlerRan
  /\ last.req.log.recipients = << EmailAB, << Word("bogus") >> >>
  /\ last.reply.status = 400
  /\ Len(batches) = 1
  /\ Len(batches[1].recipients) = 2

\* C18: the rows of the database are only ever appended to: every row keeps
\* its place and its content in every step; GET /api/email-logs/:id answers
\* with the row created under that id, the same at every read, and with 404
\* for an id under which nothing was created.
C18_BatchesOnlyGrow ==
  /\ [][ /\ Len(batches') >= Len(batches)
         /\ SubSeq(batches', 1, Len(batches)) = batches ]_vars
  /\ [](\A i \in 1..Len(batches) : batches[i].id = i)
  /\ []((last.kind = "api" /\ last.req.route = "GET /email-logs/:id"
            /\ last.reply.handlerRan /\ last.req.dbUp) =>
          IF last.req.id \in 1..Len(batches)
            THEN /\ last.reply.status = 200
                 /\ last.reply.batch = << batches[last.req.id] >>
            ELSE /\ last.reply.status = 404
                 /\ last.reply.batch = << >>)

C18_Witness ==
  /\ last.kind = "api"
  /\ last.req.route = "GET /email-logs/:id"
  /\ last.req.id = 1
  /\ last.reply.status = 200
  /\ Len(batches) = 2
  /\ batches[1] # [batches[2] EXCEPT !.id = 1]
  /\ last.reply.batch = << batches[1] >>
  /\ now > batches[2].createdAt

\* C19: the process is listening only when DATABASE_URL, ACCESS_PASSWORD,
\* JWT_SECRET and API_KEY_FRONTEND are all set; when one of them is not set
\* the startup ends the process with a non-zero exit code, and a process
\* that has exited stays so and serves no request.
C19_FailFast ==
  /\ [](pc = "listening" =>
          /\ env.DATABASE_URL.set /\ env.ACCESS_PASSWORD.set
          /\ env.JWT_SECRET.set /\ env.API_KEY_FRONTEND.set)
  /\ [](pc # "listening" =>
          /\ last = NoLast /\ issued = {}
          /\ \A k \in Keys : authHits[k] = NoClient)
  /\ [](pc = "exited" => exitCode # 0)
  /\ [][ (pc = "start" /\ pc' # "start") =>
           IF \/ ~env.DATABASE_URL.set \/ ~env.ACCESS_PASSWORD.set
              \/ ~env.JWT_SECRET.set \/ ~env.API_KEY_FRONTEND.set
             THEN pc' = "exited" /\ exitCode' # 0
             ELSE pc' \in {"listening", "exited"} ]_vars
  /\ [][ pc = "exited" => pc' = "exited" /\ last' = NoLast ]_vars

C19_Witness ==
  /\ pc = "exited"
  /\ exitCode = 1
  /\ env.DATABASE_URL = GoodEnv.DATABASE_URL
  /\ env.ACCESS_PASSWORD = GoodEnv.ACCESS_PASSWORD
  /\ env.JWT_SECRET = GoodEnv.JWT_SECRET
  /\ env.API_KEY_FRONTEND = Unset

\* The passwords that are blank or whitespace only.
BlankPasswords == { "", " ", "  " }

\* C20: a login call is outstanding exactly while isLoading is true; a
\* login call starts only when none is outstanding, and only from a submit
\* of the login form; the password it carries is never blank or whitespace
\* only, and a submit with such a password starts no call.
C20_OneLoginInFlight ==
  /\ [](loginCall.open <=> isLoading)
  /\ [][ (loginCall'.open /\ (\/ loginCall' # loginCall
                              \/ ev'.op = "login-submit" /\ ev'.branch = "sent")) =>
           /\ ~loginCall.open
           /\ ~isLoading
           /\ ev'.op = "login-submit"
           /\ loginCall'.password \notin BlankPasswords ]_vars
  /\ [][ (ev'.op = "login-submit" /\ ev'.branch = "blank") =>
           UNCHANGED << loginCall, isLoading, token, lsJwt, lsExpiry >> ]_vars

C20_Witness ==
  /\ ev.op = "login-submit"
  /\ ev.branch = "blank"
  /\ ~loginCall.open
  /\ ~isLoading
  /\ View = "login"
  /\ now > 0

\* C21: every token login has issued has expires-at = issued-at + 28800
\* seconds; a login response that carries a token carries expiresIn = 28800,
\* and the token's issued-at is the second of the request.
C21_FixedLifetime ==
  /\ \A t \in issued : t.p.exp = t.p.iat + 28800
  /\ (last.kind = "login" /\ last.reply.token # << >>) =>
       /\ last.reply.expiresIn = 28800
       /\ last.reply.token[1].p.iat = now \div 1000
       /\ last.reply.token[1].p.exp = last.reply.token[1].p.iat + last.reply.expiresIn
  /\ (last.kind = "login" /\ last.reply.token = << >>) => last.reply.expiresIn = 0

C21_Witness ==
  /\ last.kind = "login"
  /\ last.reply.status = 200
  /\ last.reply.expiresIn = 28800
  /\ Len(last.reply.token) = 1
  /\ last.reply.token[1].p.iat = 60
  /\ last.reply.token[1].p.exp = 28860
  /\ Cardinality(issued) = 2

\* The response is one login takes for a success: HTTP ok, ok true and a
\* token.
LoginSucceeded(response) ==
  /\ response.json
  /\ response.status \in 200..299
  /\ response.ok
  /\ response.token # << >>

\* C22 as stated: on a successful response the token is stored in memory and
\* in storage with expiry = now + expiresIn*1000, loading is false and login
\* returns true; on any other outcome the token and both entries are left
\* unchanged, an error message is set, loading is false and login returns
\* false.
C22_Original ==
  [][ ev'.op = "login-settled" =>
        IF LoginSucceeded(ev'.resp)
          THEN /\ token' = ev'.resp.token
               /\ lsJwt' = ev'.resp.token
               /\ lsExpiry' = toString(now + ev'.resp.expiresIn * 1000)
               /\ ~isLoading'
               /\ ev'.branch = "true"
          ELSE /\ UNCHANGED << token, lsJwt, lsExpiry >>
               /\ error' # ""
               /\ ~isLoading'
               /\ ev'.branch = "false" ]_vars

\* C22 (amended): as stated, with the stored expiry = now + expiresIn*1000
\* when the response carries a non-zero expiresIn and now + 28800*1000 when
\* expiresIn is missing or 0; in both cases the stored expiry parses back to
\* that instant.
C22_LoginOutcome ==
  [][ ev'.op = "login-settled" =>
        IF LoginSucceeded(ev'.resp)
          THEN LET expiry == IF ev'.resp.expiresIn # 0
                               THEN now + ev'.resp.expiresIn * 1000
                               ELSE now + 28800 * 1000
               IN  /\ token' = ev'.resp.token
                   /\ lsJwt' = ev'.resp.token
                   /\ lsExpiry' = toString(expiry)
                   /\ parseInt(lsExpiry') = expiry
                   /\ ~isLoading'
                   /\ ~loginCall'.open
                   /\ ev'.branch = "true"
          ELSE /\ UNCHANGED << token, lsJwt, lsExpiry >>
               /\ error' # ""
               /\ ~isLoading'
               /\ ~loginCall'.open
               /\ ev'.branch = "false" ]_vars

C22_Witness ==
  /\ ev.op = "login-settled"
  /\ ev.branch = "true"
  /\ ev.resp.status = 200
  /\ ev.resp.expiresIn = 28800
  /\ now = 500
  /\ token = ev.resp.token
  /\ lsJwt = token
  /\ parseInt(lsExpiry) = 28800500
  /\ ~isLoading

\* The first address of a forwarded-for chain: what stands before the first
\* comma, without the whitespace around it.
FirstAddress(xff) ==
  LET commas == { i \in 1..Len(xff) : xff[i] = COMMA }
      end == IF commas = {} THEN Len(xff)
             ELSE (CHOOSE i \in commas : \A j \in commas : i <= j) - 1
  IN  Trim(SubSeq(xff, 1, end))

\* The key as the claim derives it.
ClaimedKey(src) ==
  IF src.xff # NoHeader /\ src.xff # << >> THEN FirstAddress(src.xff)
  ELSE IF src.ip # << >> THEN src.ip
  ELSE << Word("unknown") >>

\* The key with the amendment: the chain counts when its first address is
\* not empty.
DerivedKey(src) ==
  IF src.xff # NoHeader /\ FirstAddress(src.xff) # << >>
    THEN FirstAddress(src.xff)
  ELSE IF src.ip # << >> THEN src.ip
  ELSE << Word("unknown") >>

\* The store of the limiter that the request of the turn went through.
StoreOf(kind, auth, api) == IF kind = "login" THEN auth ELSE api

\* C23 as stated: a request is counted in the bucket of the first address of
\* its X-Forwarded-For chain (trimmed) when the header is present and
\* non-empty, otherwise of the connection address, otherwise of "unknown".
C23_Original ==
  [][ last'.kind \in {"login", "api"} =>
        LET key == ClaimedKey(last'.req.src)
            before == StoreOf(last'.kind, authHits, apiHits)
            after == StoreOf(last'.kind, authHits', apiHits')
        IN  /\ key \in Keys
            /\ after[key] # before[key]
            /\ after[key].totalHits = last'.hits ]_vars

\* C23 (amended): a request is counted in the bucket of the first address of
\* its X-Forwarded-For chain (trimmed) when the header is present and that
\* first address is not empty, otherwise of the connection address,
\* otherwise of "unknown"; the key has no whitespace around it; and the
\* request changes the counter another request would use exactly when the
\* two derive the same key.
C23_KeyDerivation ==
  [][ last'.kind \in {"login", "api"} =>
        LET key == DerivedKey(last'.req.src)
            before == StoreOf(last'.kind, authHits, apiHits)
            after == StoreOf(last'.kind, authHits', apiHits')
        IN  /\ key \in Keys
            /\ key # << >>
            /\ Trim(key) = key
            /\ after[key] # before[key]
            /\ after[key].totalHits = last'.hits
            /\ \A other \in KeySources :
                 (after[keyGenerator(other)] # before[keyGenerator(other)])
                   <=> (DerivedKey(other) = key) ]_vars

C23_Witness ==
  /\ last.kind = "login"
  /\ last.req.src.xff = << COMMA, SP, Word("10.0.0.9") >>
  /\ last.hits = 2
  /\ authHits[<< Word("10.0.0.9") >>].totalHits = 2
  /\ authHits[<< Word("10.0.0.2") >>].totalHits = 1
  /\ authHits[<< Word("unknown") >>].totalHits = 0

\* C24: a request to /auth/login changes the login limiter's bucket of its
\* key and nothing else in either store; a request under /api changes the
\* general limiter's bucket of its key and nothing else in either store; no
\* other step changes a store.
C24_IndependentCounters ==
  [][ LET key == DerivedKey(last'.req.src) IN
      IF last'.kind = "login"
        THEN /\ apiHits' = apiHits
             /\ authHits'[key] # authHits[key]
             /\ \A k \in Keys \ { key } : authHits'[k] = authHits[k]
      ELSE IF last'.kind = "api"
        THEN /\ authHits' = authHits
             /\ apiHits'[key] # apiHits[key]
             /\ \A k \in Keys \ { key } : apiHits'[k] = apiHits[k]
      ELSE /\ authHits' = authHits
           /\ apiHits' = apiHits ]_vars

C24_Witness ==
  /\ last.kind = "api"
  /\ \E k \in Keys :
       /\ keyGenerator(last.req.src) = k
       /\ authHits[k].totalHits = 2
       /\ apiHits[k].totalHits = 1
       /\ \A other \in Keys \ { k } :
            authHits[other] = NoClient /\ apiHits[other] = NoClient

\* The ceiling of a limiter.
MaxOf(limiter) ==
  IF limiter = "auth" THEN 5 ELSE IF maxReqEnv = 0 THEN 30 ELSE maxReqEnv

\* The requests counted under the same limiter, key and window as r.
SameWindow(r) ==
  { q \in Counted(r.limiter) : q.key = r.key /\ q.resetTime = r.resetTime }

\* C25: under every interleaving of requests with the same key, a limiter
\* admits at most its maxRequests (5 for login, RATE_LIMIT_MAX_REQ or 30 for
\* /api) in one window; no two requests of one window are given the same
\* count, the counts of a window are 1, 2, 3, ... without a gap, and the
\* store holds the number of requests counted in its current window.
C25_AtomicIncrement ==
  /\ [](\A d \in decided :
          Cardinality({ e \in decided : /\ e.admitted
                                         /\ e.req \in SameWindow(d.req) })
            <= MaxOf(d.req.limiter))
  /\ [](\A limiter \in {"auth", "api"} : \A r \in Counted(limiter) :
          /\ { q.totalHits : q \in SameWindow(r) } = 1..Cardinality(SameWindow(r))
          /\ \A q \in SameWindow(r) : q.totalHits = r.totalHits => q = r
          /\ LET client == StoreOf(IF limiter = "auth" THEN "login" ELSE "api",
                                    authHits, apiHits)[r.key]
             IN  client.resetTime = r.resetTime =>
                   client.totalHits = Cardinality(SameWindow(r)))
  /\ [](\A d \in decided :
          d.admitted <=> d.req.totalHits <= MaxOf(d.req.limiter))

C25_Witness ==
  /\ Cardinality({ d \in decided : d.req.limiter = "auth" /\ d.admitted
                                     /\ d.req.resetTime = windowMs }) = 5
  /\ \E d \in decided :
       /\ d.req.limiter = "auth" /\ ~d.admitted
       /\ d.req.resetTime = windowMs /\ d.req.totalHits = 6
  /\ \E r \in pending : r.limiter = "api" /\ r.totalHits = 3
  /\ \E d \in decided : d.req.limiter = "api" /\ d.admitted
                           /\ d.req.totalHits = 2 /\ d.req.n = 2

\* The text has no whitespace at either end.
Trimmed(text) ==
  text = << >> \/ (text[1] \notin WS /\ text[Len(text)] \notin WS)

\* C26: the body of every webhook request is {holiday_name: the holiday
\* field trimmed, tone: the tone field trimmed, or "warm" when that is
\* empty, sender_name: the sender field trimmed, audience_type and language
\* as selected, recipients: the recipients field as typed}; the request
\* carries X-N8N-SECRET, with the secret as value, exactly when the build
\* has a non-empty VITE_N8N_SECRET.
C26_WebhookRequest ==
  \A w \in webhooks :
    /\ w.payload =
         [holiday_name  |-> Trim(w.fields.holidayName),
          tone          |-> IF Trim(w.fields.tone) = << >>
                              THEN << Word("warm") >>
                              ELSE Trim(w.fields.tone),
          sender_name   |-> Trim(w.fields.senderName),
          audience_type |-> w.fields.audienceType,
          language      |-> w.fields.language,
          recipients    |-> w.fields.recipients]
    /\ Trimmed(w.payload.holiday_name) /\ w.payload.holiday_name # << >>
    /\ Trimmed(w.payload.sender_name) /\ w.payload.sender_name # << >>
    /\ Trimmed(w.payload.tone) /\ w.payload.tone # << >>
    /\ (w.headers.xN8nSecret # NoHeader) <=> (buildEnv.set /\ buildEnv.value # "")
    /\ (w.headers.xN8nSecret # NoHeader) =>
         w.headers.xN8nSecret = << Word(buildEnv.value) >>

C26_Witness ==
  /\ ev.op = "submit"
  /\ ev.branch = "valid"
  /\ buildEnv = [set |-> TRUE, value |-> ""]
  /\ \E w \in webhooks :
       /\ w.fields.tone = << SP >>
       /\ w.payload.tone = << Word("warm") >>
       /\ w.payload.holiday_name = << Word("Christmas") >>
       /\ w.payload.audience_type = "personal"
       /\ w.payload.language = "hi"
       /\ Len(w.payload.recipients) > Len(EmailAB) + Len(EmailCD)
       /\ Len(w.batch.recipients) = 2
       /\ w.headers.xN8nSecret = NoHeader

\* The characters of the text that are neither separators nor whitespace.
Core(raw) == { i \in 1..Len(raw) : raw[i] \notin { COMMA, NL } \cup WS }

\* No comma and no newline stands between positions i and j of the text.
SameEntry(raw, i, j) == \A k \in i..j : raw[k] \notin { COMMA, NL }

\* The positions at which an entry with something in it begins.
EntryStarts(raw) ==
  { i \in Core(raw) : \A j \in Core(raw) : j < i => ~SameEntry(raw, j, i) }

\* The entry that begins at position i, up to its last character that is
\* not whitespace.
EntryAt(raw, i) ==
  LET ends == { j \in Core(raw) : j >= i /\ SameEntry(raw, i, j) }
      last_ == CHOOSE j \in ends : \A k \in ends : k <= j
  IN  SubSeq(raw, i, last_)

\* C27: extractEmails returns, in the order of the text, the entries between
\* commas and newlines that have something other than whitespace in them,
\* each without the whitespace around it; no returned element is empty, has
\* whitespace at either end or holds a comma or a newline; and
\* "a@x.com, b@y.com\nc@z.com" yields the three addresses.
C27_ExtractEmails ==
  output.extracted =>
    LET raw == input.recipients
        emails == output.emails
        starts == EntryStarts(raw)
    IN  /\ Len(emails) = Cardinality(starts)
        /\ \A i \in starts :
             emails[Cardinality({ j \in starts : j <= i })] = EntryAt(raw, i)
        /\ \A k \in 1..Len(emails) :
             /\ emails[k] # << >>
             /\ Trimmed(emails[k])
             /\ \A c \in 1..Len(emails[k]) : emails[k][c] \notin { COMMA, NL }
        /\ raw = ThreeAddresses =>
             emails = << << Word("a"), AT, Word("x"), DOT, Word("com") >>,
                         << Word("b"), AT, Word("y"), DOT, Word("com") >>,
                         << Word("c"), AT, Word("z"), DOT, Word("com") >> >>

C27_Witness ==
  /\ output.extracted
  /\ input.recipients = ThreeAddresses
  /\ Len(output.emails) = 3
  /\ output.emails[2] = << Word("b"), AT, Word("y"), DOT, Word("com") >>

\* The text has a character that is not whitespace.
NonBlank(text) == \E k \in 1..Len(text) : text[k] \notin WS

\* The entry looks like an email address: no whitespace, one @ with
\* something before it, and after the @ a dot with something on both sides.
LooksValid(e) ==
  /\ \A k \in 1..Len(e) : e[k] \notin WS
  /\ Cardinality({ k \in 1..Len(e) : e[k] = AT }) = 1
  /\ LET at == CHOOSE k \in 1..Len(e) : e[k] = AT
     IN  /\ at > 1
         /\ \E d \in 1..Len(e) : e[d] = DOT /\ d > at + 1 /\ d < Len(e)

\* C28: validateForm returns valid exactly when the holiday name and the
\* sender name are non-blank and one entry of the recipients text looks like
\* an email address; each of the three has a message under its own key
\* exactly when it fails, so a recipients text without such an entry always
\* has a message under recipients.
C28_ValidateForm ==
  output.validated =>
    LET v == output.validation
        raw == input.recipients
        holidayOk == NonBlank(input.holidayName)
        senderOk == NonBlank(input.senderName)
        recipientsOk == \E i \in EntryStarts(raw) : LooksValid(EntryAt(raw, i))
    IN  /\ v.valid <=> (holidayOk /\ senderOk /\ recipientsOk)
        /\ (v.errors.holidayName # "") <=> ~holidayOk
        /\ (v.errors.senderName # "") <=> ~senderOk
        /\ (v.errors.recipients # "") <=> ~recipientsOk
        /\ v.errors.recipients \in
             { "", "At least one recipient email is required.",
               "Please enter at least one valid email address." }
        /\ v.valid <=> v.errors = NoErrors

C28_Witness ==
  /\ output.validated
  /\ input.holidayName = << SP >>
  /\ input.senderName = << Word("Jane") >>
  /\ input.recipients =
       << Word("a"), AT, Word("b"), COMMA, SP, Word("c"), AT, Word("d"), DOT,
          Word("org"), SP >>
  /\ ~output.validation.valid
  /\ output.validation.errors.holidayName # ""
  /\ output.validation.errors.senderName = ""
  /\ output.validation.errors.recipients = ""

\* The batches the status filter selects.
Matching(status) ==
  { k \in 1..Len(batches) :
      status = Absent \/ << Word(batches[k].status) >> = status }

\* limit is below 1 or above 100, offset is below 0, or one of them is not
\* a number.
OutOfRange(limit, offset) ==
  \/ limit.nan \/ limit.num < limit.den \/ limit.num > 100 * limit.den
  \/ offset.nan \/ offset.num < 0

\* r is the page of l logs from the o-th on of the batches m, newest first,
\* with their number as total.
IsPage(r, m, l, o) ==
  /\ r.status = 200
  /\ Len(r.logs) <= l
  /\ Len(r.logs) = IF Cardinality(m) - o < 0 THEN 0
                   ELSE IF Cardinality(m) - o < l THEN Cardinality(m) - o
                   ELSE l
  /\ r.total = Cardinality(m)
  /\ r.limit = l /\ r.offset = o
  /\ \A i \in 1..Len(r.logs) : \E k \in m : r.logs[i] = LogOf(batches[k])
  /\ \A i, j \in 1..Len(r.logs) :
       i < j => /\ r.logs[i].id # r.logs[j].id
                /\ r.logs[i].createdAt >= r.logs[j].createdAt
  /\ \A i \in 1..Len(r.logs) :
       /\ Cardinality({ k \in m : batches[k].createdAt > r.logs[i].createdAt })
            <= o + i - 1
       /\ Cardinality({ k \in m : batches[k].createdAt >= r.logs[i].createdAt })
            >= o + i

\* The answer r to a query with these values of limit and offset.
Answers(r, limit, offset, status) ==
  /\ OutOfRange(limit, offset) => r.status = 400
  /\ r.status = 400 =>
       \/ OutOfRange(limit, offset)
       \/ ~(status = Absent \/ \E st \in StatusEnum : status = << Word(st) >>)
  /\ (/\ ~OutOfRange(limit, offset)
      /\ status = Absent \/ \E st \in StatusEnum : status = << Word(st) >>
      /\ IsInteger(limit) /\ IsInteger(offset)) =>
       IsPage(r, Matching(status), limit.num \div limit.den,
              offset.num \div offset.den)

C30_Stateless ==
  /\ \A t \in PresentableTokens :
       (ReachedAuth /\ last.req.auth = << Word("Bearer"), SP, t >>) =>
         LET v == JwtVerify(<< t >>, JWT_SECRET, now) IN
         /\ last.reply.handlerRan <=> v.err = ""
         /\ v.err = "" => last.reply.user = v.decoded
         /\ v.err = "TokenExpiredError" =>
              last.reply.status = 401 /\ last.reply.code = "TOKEN_EXPIRED"
         /\ v.err = "JsonWebTokenError" =>
              last.reply.status = 401 /\ last.reply.code = "INVALID_TOKEN"
  /\ \A t \in issued :
       (ReachedAuth /\ last.req.auth = << Word("Bearer"), SP, t >>
          /\ now < t.p.exp * 1000) =>
         last.reply.handlerRan /\ last.reply.user = t.p

\* The client has logged out of the only token that was issued, and a
\* request that presents this token is served.
C30_Witness ==
  /\ ev.op = "logout"
  /\ token = << >> /\ lsJwt = << >>
  /\ ReachedAuth
  /\ \E t \in issued :
       /\ issued = { t }
       /\ last.req.auth = << Word("Bearer"), SP, t >>
  /\ last.reply.handlerRan
  /\ last.reply.status = 200

ApiKeyCodes == {"MISSING_API_KEY", "INVALID_API_KEY"}

\* C31: a request to /api that the general limiter rejects is answered 429
\* RATE_LIMIT_EXCEEDED whatever its key and token, and neither the gate nor
\* the token middleware nor a handler acts on it; a request the limiter
\* admits without the configured API key is answered with an API-key code
\* whatever its token; a token code is sent only to a request that was
\* admitted and carried the configured key.
C31_GuardOrder ==
  last.kind = "api" =>
    /\ ~ApiAdmitted =>
         /\ last.reply.status = 429
         /\ last.reply.code = "RATE_LIMIT_EXCEEDED"
         /\ AuthNotCalled
    /\ (ApiAdmitted /\ last.req.apiKey # << Word(API_KEY_FRONTEND) >>) =>
         /\ last.reply.code \in ApiKeyCodes
         /\ AuthNotCalled
    /\ last.reply.code \in ApiKeyCodes => ApiAdmitted
    /\ last.reply.code \in TokenCodes => ReachedAuth

\* An admitted request with another key and no token gets the gate's code.
C31_Witness ==
  /\ ApiAdmitted
  /\ last.req.apiKey = << Word("other-key") >>
  /\ last.req.auth = NoHeader
  /\ last.reply.status = 401
  /\ last.reply.code = "INVALID_API_KEY"

\* The token middleware called the next handler with an identity attached
\* and sent no response of its own.
AuthCalledNext ==
  /\ last.reply.handlerRan
  /\ last.reply.user # NoPayload
  /\ last.reply.code \notin TokenCodes

\* The token middleware answered 401 with one of its codes, did not call the
\* next handler and attached no identity.
AuthRejected ==
  /\ last.reply.status = 401
  /\ last.reply.code \in TokenCodes
  /\ ~last.reply.handlerRan
  /\ last.reply.dbCalls = 0
  /\ last.reply.user = NoPayload

\* C32: for every request that reaches the token middleware exactly one of
\* the two holds: the next handler ran with the decoded identity attached
\* and the middleware sent nothing, or the response is a 401 with one of
\* MISSING_AUTH_HEADER, INVALID_AUTH_FORMAT, TOKEN_EXPIRED, INVALID_TOKEN, no
\* handler ran and no identity is attached.
C32_OneOutcome ==
  ReachedAuth =>
    /\ AuthCalledNext \/ AuthRejected
    /\ ~(AuthCalledNext /\ AuthRejected)

\* A request without Authorization header is answered by the middleware.
C32_Witness ==
  /\ ReachedAuth
  /\ last.req.auth = NoHeader
  /\ AuthRejected
  /\ last.reply.code = "MISSING_AUTH_HEADER"

\* C33: whenever a protected handler runs, the identity attached to the
\* request has sub = "admin" and role = "admin", its issued-at is at or
\* before the second of the request and its expires-at after it, and it is
\* the payload of the presented token, which a login issued earlier.
C33_FixedIdentity ==
  (last.kind = "api" /\ last.reply.handlerRan) =>
    /\ last.reply.user.sub = "admin"
    /\ last.reply.user.role = "admin"
    /\ last.reply.user.iat <= now \div 1000
    /\ now \div 1000 < last.reply.user.exp
    /\ \E t \in issued :
         /\ last.req.auth = << Word("Bearer"), SP, t >>
         /\ last.reply.user = t.p

\* A handler runs hours after the login, just before the token expires,
\* when a second token has been issued.
C33_Witness ==
  /\ last.kind = "api"
  /\ last.reply.handlerRan
  /\ Cardinality(issued) = 2
  /\ last.reply.user.iat < now \div 1000
  /\ last.reply.user.role = "admin"

\* C34 as stated: the recipients a validated submission sends to the log
\* endpoint pass the server's schema, and the log request of a submission
\* that reached the webhook, sent with a live token and the API key,
\* persists one Email Batch.
C34_ValidatedIsLogged ==
  /\ \A w \in webhooks :
       LogEmailBatchSchema([w.batch EXCEPT !.status = "sent"]).success
  /\ (ReachedAuth /\ last.req.route = "POST /log-email-batch"
        /\ CarriesLiveToken(last.req.auth)) =>
       /\ last.reply.status = 201
       /\ Len(last.reply.created) = 1

\* The count of a bucket after one more request at this instant: 1 when its
\* window is over (or it never had one), one more than before otherwise.
OneMore(client) ==
  IF client.resetTime <= now THEN 1 ELSE client.totalHits + 1

\* C35: every POST /auth/login raises the count of its key in the login
\* limiter by one (to 1 when the window is over), whether it is answered
\* 400, 401 or 200, and every request under /api raises the count of its key
\* in the general limiter in the same way, whether it is then rejected by
\* the API-key gate or by the token middleware or served.
C35_EveryRequestCounts ==
  [][ LET key == keyGenerator(last'.req.src) IN
      /\ (last = NoLast /\ last'.kind = "login") =>
           /\ authHits'[key].totalHits = OneMore(authHits[key])
           /\ last'.hits = authHits'[key].totalHits
      /\ (last = NoLast /\ last'.kind = "api") =>
           /\ apiHits'[key].totalHits = OneMore(apiHits[key])
           /\ last'.hits = apiHits'[key].totalHits ]_vars

\* A login without password was answered 400 and took the second unit of
\* the window, after a request under /api was counted as well.
C35_Witness ==
  /\ last.kind = "login"
  /\ last.reply.status = 400
  /\ last.reply.code = "VALIDATION_ERROR"
  /\ authHits[keyGenerator(Direct)].totalHits = 2
  /\ apiHits[keyGenerator(Direct)].totalHits >= 1

\* The client is Authenticated: a token in memory, the auto-logout effect
\* has run for it, and no expiry timer is due.
Authenticated ==
  /\ token # << >>
  /\ ~EffectPending
  /\ \A timer \in timers : now < timer.fireAt

\* C36 as stated: while the client is Authenticated the held token has not
\* expired on the server, and the stored expiry is not later than the
\* token's expires-at.
C36_Original ==
  (Authenticated /\ lsExpiry # << >>) =>
    /\ now < token[1].p.exp * 1000
    /\ parseInt(lsExpiry) <= token[1].p.exp * 1000

\* C36 (amended): the expiry the client stores at login is never earlier
\* than the expires-at of the token it holds, which login issued; it is the
\* time the response arrived plus 28 800 000 ms, while expires-at is the
\* second of issue plus 28 800 s.
C36_ClientExpiry ==
  [][ (lsExpiry' # lsExpiry /\ lsExpiry' # << >>) =>
        /\ token' # << >>
        /\ token'[1] \in issued'
        /\ parseInt(lsExpiry') = now' + TOKEN_EXPIRATION_SECONDS * 1000
        /\ parseInt(lsExpiry') >= token'[1].p.exp * 1000 ]_vars

\* The client is Authenticated at an instant at which the server already
\* answers TOKEN_EXPIRED to the token it holds.
C36_Witness ==
  /\ Authenticated
  /\ lsExpiry # << >>
  /\ token[1] \in issued
  /\ now >= token[1].p.exp * 1000
  /\ now < parseInt(lsExpiry)
  /\ ReachedAuth
  /\ last.req.auth = << Word("Bearer"), SP >> \o token
  /\ last.reply.code = "TOKEN_EXPIRED"

\* The step settles a protected call that was sent with a token other than
\* the one the client holds now.
StaleResponse ==
  /\ ev'.op = "response"
  /\ token # << >>
  /\ \E c \in calls \ calls' : c.tok # << >> /\ c.tok # token

\* The step leaves the session as it was: the token in memory and both
\* stored entries.
SessionKept == UNCHANGED << token, lsJwt, lsExpiry >>

\* C37 as stated: a response ends the session only when it is a 401/403 to
\* a request that carried the session's token; a response to a request sent
\* with an earlier session's token leaves the newer session as it was.
C37_Original ==
  [][ /\ (ev'.op = "response" /\ token # << >> /\ ~SessionKept) =>
           (handleAuthError(ev'.status) /\ \E c \in calls \ calls' : c.tok = token)
      /\ StaleResponse => SessionKept ]_vars

\* C37 (amended): the token in memory is dropped only by logout(), by the
\* expiry timer or the expiry check of the auto-logout effect, by a reload
\* of the page, or by a 401/403 response to a protected call; such a response
\* ends the current session whichever token its request carried, also the
\* token of an earlier session, and any other response to such a request
\* leaves the session as it was.
C37_SessionEnds ==
  [][ /\ (token # << >> /\ token' # token) =>
           \/ ev'.op \in {"logout", "timer", "effect"}
           \/ initialized /\ ~initialized'
           \/ ev'.op = "response" /\ handleAuthError(ev'.status)
      /\ StaleResponse =>
           IF handleAuthError(ev'.status)
             THEN token' = << >> /\ lsJwt' = << >> /\ lsExpiry' = << >>
             ELSE SessionKept ]_vars

\* A call sent in the session of the first login came back with 401 while a
\* later login's token was held: the later session is gone.
C37_Witness ==
  /\ ev.op = "response"
  /\ ev.status = 401
  /\ ev.resp.token # << >>
  /\ effectToken # << >>
  /\ effectToken # ev.resp.token
  /\ ev.resp.token[1].p.iat < effectToken[1].p.iat
  /\ token = << >>
  /\ lsJwt = << >>
  /\ lsExpiry = << >>

\* The step applies logout(): the button of the application view, or the
\* 401/403 branch of a protected call.
LogoutApplied ==
  \/ ev'.op = "logout"
  \/ ev'.op = "response" /\ handleAuthError(ev'.status)

\* What logout() leaves behind.
LoggedOut ==
  /\ token = << >>
  /\ error = ""
  /\ lsJwt = << >>
  /\ lsExpiry = << >>

\* C38 as stated: logout() leaves the token null, the error cleared, both
\* stored entries removed and no expiry timer live, and a second logout()
\* changes nothing.
C38_Original ==
  [][ LogoutApplied =>
        /\ LoggedOut'
        /\ timers' = {}
        /\ LoggedOut =>
             UNCHANGED << token, error, lsJwt, lsExpiry, timers >> ]_vars

\* C38 (amended): logout() applied in any client state leaves the token in
\* memory null, the last error cleared and both stored entries removed, and
\* the login view showing; applied to a state it has already produced it
\* changes nothing of the session; the expiry timer is not touched by
\* logout() itself, and once the auto-logout effect has run for the null
\* token no expiry timer is live.
C38_Logout ==
  /\ [][ LogoutApplied =>
           /\ LoggedOut'
           /\ View' = "login"
           /\ UNCHANGED << timers, cleanup >>
           /\ LoggedOut =>
                UNCHANGED << token, error, lsJwt, lsExpiry, isLoading,
                             initialized, effectToken >> ]_vars
  /\ []((token = << >> /\ ~EffectPending) => timers = {})

\* logout() has just been applied from the application view: the session is
\* gone, and the timer scheduled for it is live until the effect has run.
C38_Witness ==
  /\ ev.op = "logout"
  /\ LoggedOut
  /\ View = "login"
  /\ EffectPending
  /\ Cardinality(timers) = 1
  /\ \A timer \in timers : timer.tok = effectToken /\ now < timer.fireAt

\* const isSubmitting = submission.status === 'submitting'
isSubmitting == submission = "submitting"

\* The webhook calls in flight that the mounted form has sent.
InFlight == { w \in webhooks : ~w.orphan }

\* The submission has an outcome on show.
Settled == submission \in {"success", "error"}

\* The step unmounts the form: the token in memory is dropped.
Unmounts == token # << >> /\ token' = << >>

====
